---- MODULE Spec2Model ----
(***************************************************************************)
(* Regulatory threshold governance: CSV import, coverage-gated approve and *)
(* publish of threshold releases, the effective-dated cutover of the live  *)
(* compliance_thresholds table and the audit ledger every call appends to. *)
(* Modelled from app/services/regulatory.py, app/services/compliance.py    *)
(* and app/services/audit.py.                                              *)
(***************************************************************************)
EXTENDS Integers, Sequences, FiniteSets, TLC

(***************************************************************************)
(* Bounds of the model.  Dates are day numbers 1..MaxDate.                 *)
(***************************************************************************)
MaxDate == 2
MaxCsvRows == 2
MaxTxns == 2
MaxLedger == 3
MaxReports == 1
MaxPacks == 1
MaxRuns == 1
MaxJobs == 2

Dates == 1..MaxDate

\* How far the application's clock reading is after the transaction's start.
ClockLags == {0, 1}

\* SQL NULL / Python None in a date or numeric column.
NULL == -1
\* Python None in a text column or argument.
None == "None"

(***************************************************************************)
(* Text helpers.  Strings are atomic in the model, so strip(), lower(),    *)
(* upper() and the whitespace collapse are given by their graph on the     *)
(* strings the model uses; any other string is a fixed point.              *)
(***************************************************************************)
Apply(table, s) == IF s \in DOMAIN table THEN table[s] ELSE s

StripTable == (" ppb " :> "ppb") @@ (" " :> "") @@ (" R1 " :> "R1")

LowerTable == ("PPB" :> "ppb") @@ ("CFU/g" :> "cfu/g") @@ ("CFU/25g" :> "cfu/25g")
              @@ ("CFU  per  g" :> "cfu  per  g") @@ ("Critical" :> "critical")
              @@ ("HIGH" :> "high")

UpperTable == ("eu" :> "EU") @@ ("fssai" :> "FSSAI") @@ ("usda" :> "USDA")

CompactTable == ("cfu  per  g" :> "cfu per g")

ALLOWED_STANDARDS == {"FSSAI", "EU", "CODEX", "HACCP_INTERNAL"}
ALLOWED_REVIEW_STATUS == {"draft", "approved", "published", "rejected"}
ALLOWED_SEVERITIES == {"low", "medium", "high", "critical"}

STANDARD_REQUIREMENT_COLUMNS ==
    ("FSSAI" :> "require_fssai") @@ ("EU" :> "require_eu")
    @@ ("CODEX" :> "require_codex") @@ ("HACCP_INTERNAL" :> "require_haccp_internal")

UNIT_ALIASES ==
    ("%" :> "%") @@ ("percent" :> "%") @@ ("percentage" :> "%")
    @@ ("ppb" :> "ug/kg") @@ ("ug/kg" :> "ug/kg") @@ ("mcg/kg" :> "ug/kg")
    @@ ("ppm" :> "mg/kg") @@ ("mg/kg" :> "mg/kg")
    @@ ("cfu/g" :> "cfu/g") @@ ("cfu per g" :> "cfu/g")
    @@ ("cfu/25g" :> "cfu/25g") @@ ("cfu per 25g" :> "cfu/25g")
    @@ ("absence/25g" :> "cfu/25g") @@ ("absent/25g" :> "cfu/25g")

_clean_text(value) == IF value = None THEN "" ELSE Apply(StripTable, value)

normalize_unit(raw_unit) ==
    LET cleaned == _clean_text(raw_unit)
        lowered == Apply(LowerTable, cleaned)
        compact == Apply(CompactTable, lowered)
    IN  IF cleaned = "" THEN ""
        ELSE IF compact \in DOMAIN UNIT_ALIASES THEN UNIT_ALIASES[compact]
        ELSE compact

\* re.sub(r"[^A-Za-z0-9]+", "_", name.strip().upper()).strip("_")
SlugTable == ("Aflatoxin B1" :> "AFLATOXIN_B1") @@ ("Total Plate Count" :> "TOTAL_PLATE_COUNT")
             @@ ("Total Aflatoxins" :> "TOTAL_AFLATOXINS") @@ ("Moisture" :> "MOISTURE")
             @@ ("afla_b1" :> "AFLA_B1") @@ ("tpc" :> "TPC")

PARAMETER_ALIASES == ("MOISTURE" :> "MOISTURE") @@ ("AFLATOXIN_B1" :> "AFLA_B1")
                     @@ ("AFLA_B1" :> "AFLA_B1") @@ ("TOTAL_PLATE_COUNT" :> "TPC")

normalize_parameter_code(parameter_name) ==
    LET key == Apply(SlugTable, parameter_name)
    IN  Apply(PARAMETER_ALIASES, key)

\* Decimal(raw): the numeric texts of the model; any other non-empty text
\* raises InvalidOperation.
DecimalTable == ("1" :> 1) @@ ("2" :> 2) @@ ("10" :> 10)

Invalid == -2

_parse_decimal(value) ==
    LET raw == _clean_text(value)
    IN  IF raw = "" THEN NULL
        ELSE IF raw \in DOMAIN DecimalTable THEN DecimalTable[raw]
        ELSE Invalid

\* date.fromisoformat(raw): an ISO text is modelled by its day number, a
\* missing or blank text by NULL, a malformed text by Invalid.
_parse_iso_date(value) ==
    IF value = NULL THEN NULL
    ELSE IF value \in Nat THEN value
    ELSE Invalid

BadDate == -3

(***************************************************************************)
(* parse_threshold_csv.  A CSV is a header (set of column names) and a     *)
(* sequence of raw rows; a column absent from the header reads as None.    *)
(***************************************************************************)
REQUIRED_COLS == {"product_category", "parameter_name", "unit"}
OPTIONAL_COLS == {"parameter_code", "limit_min", "limit_max", "severity", "source_clause", "remarks"}

Cell(csv, raw, col) == IF col \in csv.header THEN raw[col] ELSE None

OrElse(a, b) == IF a = "" \/ a = None THEN b ELSE a

\* One iteration of the row loop: the error strings it appends and the row
\* it appends (none when the iteration ends in "continue").
NoRow == <<>>

ParseRow(csv, raw, row_num) ==
    LET product_category == _clean_text(Cell(csv, raw, "product_category"))
        parameter_name == _clean_text(Cell(csv, raw, "parameter_name"))
        unit_raw == _clean_text(Cell(csv, raw, "unit"))
        unit == normalize_unit(unit_raw)
        parameter_code == normalize_parameter_code(
            OrElse(_clean_text(Cell(csv, raw, "parameter_code")),
                   normalize_parameter_code(parameter_name)))
        e1 == IF product_category = "" THEN << <<row_num, "product_category is required">> >> ELSE <<>>
        e2 == IF parameter_name = "" THEN << <<row_num, "parameter_name is required">> >> ELSE <<>>
        e3 == IF unit = "" THEN << <<row_num, "unit is required">> >> ELSE <<>>
        pre == e1 \o e2 \o e3
        limit_min == _parse_decimal(Cell(csv, raw, "limit_min"))
        limit_max == _parse_decimal(Cell(csv, raw, "limit_max"))
        severity == Apply(LowerTable, OrElse(_clean_text(Cell(csv, raw, "severity")), "critical"))
        source_clause == OrElse(_clean_text(Cell(csv, raw, "source_clause")), None)
        remarks == OrElse(_clean_text(Cell(csv, raw, "remarks")), None)
    IN  IF limit_min = Invalid \/ limit_max = Invalid
        THEN [errors |-> pre \o << <<row_num, "Invalid numeric value">> >>, row |-> NoRow]
        ELSE IF limit_min = NULL /\ limit_max = NULL
        THEN [errors |-> pre \o << <<row_num, "at least one of limit_min/limit_max is required">> >>,
              row |-> NoRow]
        ELSE IF severity \notin ALLOWED_SEVERITIES
        THEN [errors |-> pre \o << <<row_num, "severity must be one of">> >>, row |-> NoRow]
        ELSE IF source_clause = None
        THEN [errors |-> pre \o << <<row_num, "source_clause is required for authoritative traceability">> >>,
              row |-> NoRow]
        ELSE [errors |-> pre,
              row |-> << [product_category |-> product_category,
                       parameter_code |-> parameter_code,
                       parameter_name |-> parameter_name,
                       limit_min |-> limit_min,
                       limit_max |-> limit_max,
                       unit |-> unit,
                       unit_raw |-> unit_raw,
                       severity |-> severity,
                       source_clause |-> source_clause,
                       remarks |-> remarks] >>]

RECURSIVE ParseRows(_, _)
ParseRows(csv, n) ==
    IF n = 0 THEN [rows |-> <<>>, errors |-> <<>>]
    ELSE LET prev == ParseRows(csv, n - 1)
             cur == ParseRow(csv, csv.rows[n], n + 1)
         IN  [rows |-> prev.rows \o cur.row,
              errors |-> prev.errors \o cur.errors]

RowKey(row) == <<row.product_category, row.parameter_code>>

RECURSIVE Dedupe(_, _)
Dedupe(rows, n) ==
    IF n = 0 THEN [rows |-> <<>>, errors |-> <<>>]
    ELSE LET prev == Dedupe(rows, n - 1)
             row == rows[n]
         IN  IF \E i \in 1..Len(prev.rows) : RowKey(prev.rows[i]) = RowKey(row)
             THEN [rows |-> prev.rows,
                   errors |-> Append(prev.errors, <<"Duplicate threshold key in CSV", RowKey(row)>>)]
             ELSE [rows |-> Append(prev.rows, row), errors |-> prev.errors]

\* The result once the row loop has run: the deduplicated rows, and the errors
\* of the row loop followed by those of the dedupe loop.
DedupeParsed(parsed) ==
    LET deduped == Dedupe(parsed.rows, Len(parsed.rows))
    IN  [fatal |-> "", rows |-> deduped.rows, errors |-> parsed.errors \o deduped.errors]

\* Returns [fatal, rows, errors]; fatal is the ValueError raised on the header.
parse_threshold_csv(csv) ==
    IF csv.header = {} THEN [fatal |-> "CSV has no header row", rows |-> <<>>, errors |-> <<>>]
    ELSE IF REQUIRED_COLS \ csv.header # {}
    THEN [fatal |-> "CSV missing required columns", rows |-> <<>>, errors |-> <<>>]
    ELSE IF csv.header \ (REQUIRED_COLS \cup OPTIONAL_COLS) # {}
    THEN [fatal |-> "CSV has unsupported columns", rows |-> <<>>, errors |-> <<>>]
    ELSE DedupeParsed(ParseRows(csv, Len(csv.rows)))

(***************************************************************************)
(* Inputs of the model.                                                    *)
(***************************************************************************)
FULL_HEADER == REQUIRED_COLS \cup OPTIONAL_COLS

RawRow(name, unit, limit_max, clause) ==
    [product_category |-> "NUTRI", parameter_name |-> name, parameter_code |-> "",
     unit |-> unit, limit_min |-> "", limit_max |-> limit_max, severity |-> "",
     source_clause |-> clause, remarks |-> ""]

RowA == RawRow("Aflatoxin B1", "ppb", "2", "cl 4.2")
RowT == RawRow("Total Plate Count", "CFU/g", "10", "cl 7")
RowANoClause == RawRow("Aflatoxin B1", " ppb ", "2", " ")
RowTNoLimit == RawRow("Total Plate Count", "CFU/g", "", "cl 7")

RawRows == { RowA, RowT, RowANoClause, RowTNoLimit }

Csv(rows) == [header |-> FULL_HEADER, rows |-> rows]

\* Every CSV of at most MaxCsvRows rows, and three CSVs with a bad header.
CsvInputs == { Csv(rs) : rs \in UNION { [1..n -> RawRows] : n \in 0..MaxCsvRows } }
             \cup { [header |-> FULL_HEADER \ {"source_clause"}, rows |-> <<RowA>>],
                    [header |-> FULL_HEADER \ {"unit"}, rows |-> <<RowA>>],
                    [header |-> FULL_HEADER \cup {"comment"}, rows |-> <<RowA>>] }

Actors == {"qa1", "qa2"}
ReleaseCodes == {"R1", "R2"}

ImportRequest(std, code, from, to, csv) ==
    [standard_name |-> std, release_code |-> code, document_title |-> "Gazette",
     effective_from |-> from, effective_to |-> to, imported_by |-> "qa1",
     csv |-> csv, source_authority |-> "FSSAI", publication_date |-> 1, notes |-> None]

GoodRequest == ImportRequest("FSSAI", "R1", 1, NULL, Csv(<<RowA>>))

\* GoodRequest with one argument spoiled at a time.
BadRequests ==
    { [GoodRequest EXCEPT !.standard_name = "usda"],
      [GoodRequest EXCEPT !.release_code = " "],
      [GoodRequest EXCEPT !.document_title = ""],
      [GoodRequest EXCEPT !.effective_from = NULL],
      [GoodRequest EXCEPT !.effective_from = BadDate],
      [GoodRequest EXCEPT !.effective_from = MaxDate, !.effective_to = 1],
      [GoodRequest EXCEPT !.source_authority = None],
      [GoodRequest EXCEPT !.publication_date = NULL] }

\* Requests of the import gate: both standards, every date, every CSV.
GateRequests ==
    { ImportRequest(std, "R1", from, NULL, csv) :
        std \in {"FSSAI", "eu"}, from \in Dates, csv \in CsvInputs }
    \cup BadRequests

\* Requests of the lifecycle: releases of one standard taking effect on the
\* last day, well-formed and ill-formed CSVs.
LifecycleRequests ==
    { ImportRequest("FSSAI", code, MaxDate, NULL, csv) :
        code \in ReleaseCodes,
        csv \in { Csv(<<RowA>>), Csv(<<RowA, RowT>>), Csv(<<RowANoClause>>), Csv(<<RowA, RowA>>) } }
    \cup { [GoodRequest EXCEPT !.standard_name = "usda"],
           [GoodRequest EXCEPT !.effective_from = MaxDate, !.effective_to = 1] }

\* Requests of racing imports: two codes, two contents.
RaceRequests ==
    { ImportRequest("FSSAI", code, 1, NULL, csv) :
        code \in ReleaseCodes, csv \in { Csv(<<RowA>>), Csv(<<RowA, RowT>>) } }

\* Requests of the cutover: open-ended releases of one standard on every
\* date, a bounded one, and one of another standard.
CutoverRequests ==
    { ImportRequest("FSSAI", code, from, NULL, csv) :
        code \in ReleaseCodes, from \in Dates, csv \in { Csv(<<RowA>>), Csv(<<RowA, RowT>>) } }
    \cup { ImportRequest("FSSAI", code, 1, MaxDate, Csv(<<RowA>>)) : code \in ReleaseCodes }
    \cup { ImportRequest("eu", code, 1, NULL, Csv(<<RowA>>)) : code \in ReleaseCodes }

Requirement(code, unit, fssai, eu, from) ==
    [product_category |-> "NUTRI", parameter_code |-> code, canonical_unit |-> unit,
     require_fssai |-> fssai, require_eu |-> eu, require_codex |-> FALSE,
     require_haccp_internal |-> FALSE, effective_from |-> from, effective_to |-> NULL,
     is_mandatory |-> TRUE]

ReqA == Requirement("AFLA_B1", "ppb", TRUE, TRUE, 1)
ReqAppm == Requirement("AFLA_B1", "ppm", TRUE, FALSE, 1)
ReqT == Requirement("TPC", "cfu/g", TRUE, FALSE, MaxDate)

RequirementRows == { ReqA, ReqAppm, ReqT }

(***************************************************************************)
(* State: the tables of the store, the last call and its outcome, and the  *)
(* import transactions in flight.                                          *)
(***************************************************************************)
VARIABLES releases, values, thresholds, requirements, audit_logs, last, txns

\* The delay between the store's now() and the application's
\* datetime.now(timezone.utc) read while the hash is computed.
VARIABLE clock_lag

\* The tables of CCP monitoring.
VARIABLES ccp_logs, alerts

ccp_tables == <<ccp_logs, alerts>>

\* The tables of risk scoring, the anomaly scan and the daily cycle.
VARIABLES ai_risk_scores, anomaly_events, automation_runs

scoring_tables == <<ai_risk_scores, anomaly_events, automation_runs>>

\* The tables of lab-report ingestion.
VARIABLES lab_reports, quality_test_records, ingestion_jobs

lab_tables == <<lab_reports, quality_test_records, ingestion_jobs>>

\* The audit_packs table and the three files of every pack folder.
VARIABLES audit_packs, files

pack_store == <<audit_packs, files>>

\* What the governance calls never touch.
elsewhere == <<clock_lag, ccp_tables, scoring_tables, lab_tables, pack_store>>

vars == <<releases, values, thresholds, requirements, audit_logs, last, txns, elsewhere>>
db == <<releases, values, thresholds, audit_logs>>

NoError == <<>>
NoReturn == [release_id |-> 0, review_status |-> "", idempotent |-> FALSE, row_count |-> 0,
             closed_previous_rows |-> 0, inserted_rows |-> 0]

\* The call just made: its operation, the release it addressed (release_code
\* for an import, release_id otherwise), the ValueError it raised (NoError when
\* it returned) and the dict it returned.
Call(op, release_code, release_id, error, ret) ==
    [op |-> op, release_code |-> release_code, release_id |-> release_id,
     error |-> error, ret |-> ret]

Idle == [state |-> "idle"]

Init ==
    /\ releases = <<>>
    /\ values = {}
    /\ thresholds = {}
    /\ requirements = {}
    /\ audit_logs = <<>>
    /\ last = Call("none", "", 0, NoError, NoReturn)
    /\ txns = [t \in 1..MaxTxns |-> Idle]
    /\ clock_lag \in ClockLags
    /\ ccp_logs = <<>>
    /\ alerts = <<>>
    /\ ai_risk_scores = <<>>
    /\ anomaly_events = {}
    /\ automation_runs = <<>>
    /\ lab_reports = <<>>
    /\ quality_test_records = {}
    /\ ingestion_jobs = <<>>
    /\ audit_packs = <<>>
    /\ files = <<>>

(***************************************************************************)
(* Audit ledger.                                                           *)
(***************************************************************************)
\* now(): the store's clock at the start of the transaction, read as the
\* number of committed ledger entries; every now() of one transaction returns
\* the same value.
now == Len(audit_logs)

\* datetime.now(timezone.utc).isoformat(), read by the application.
utcnow == now + clock_lag

NoHash == <<>>

\* SHA-256 of the base string, kept as the fields the string is built from.
sha256(base) == base

\* SELECT event_hash FROM audit_logs ORDER BY event_time DESC LIMIT 1: None on
\* an empty ledger; otherwise the hash of a row with the greatest event_time,
\* whichever the store returns first when several rows share it.
LatestEventHashes(log) ==
    IF log = <<>> THEN {NoHash}
    ELSE { log[i].event_hash :
             i \in { j \in 1..Len(log) :
                       \A k \in 1..Len(log) : log[k].event_time <= log[j].event_time } }

\* The row INSERTed for the event when the SELECT returned prev.
AuditRow(prev, actor_id, action_type, entity_type, entity_id, payload) ==
    [actor_id |-> actor_id, action_type |-> action_type,
     entity_type |-> entity_type, entity_id |-> entity_id,
     event_time |-> now, payload |-> payload, prev_hash |-> prev,
     event_hash |-> sha256(<<prev, action_type, entity_type, entity_id, payload, utcnow>>)]

\* A ledger writer that keeps one row per entity and overwrites it.
append_audit_event_replacing_latest(log, actor_id, action_type, entity_type, entity_id, payload) ==
    { IF log = <<>> THEN <<AuditRow(prev, actor_id, action_type, entity_type, entity_id, payload)>>
      ELSE [log EXCEPT ![Len(log)] =
                AuditRow(prev, actor_id, action_type, entity_type, entity_id, payload)] :
        prev \in LatestEventHashes(log) }

\* The ledgers the call may leave, log being the ledger the transaction sees.
append_audit_event(log, actor_id, action_type, entity_type, entity_id, payload) ==
    { Append(log, AuditRow(prev, actor_id, action_type, entity_type, entity_id, payload)) :
        prev \in LatestEventHashes(log) }

(***************************************************************************)
(* Requirement profile and coverage.                                       *)
(***************************************************************************)
_active_requirement_rows(reqs, as_of) ==
    { r \in reqs : /\ r.is_mandatory
                   /\ r.effective_from <= as_of
                   /\ (r.effective_to = NULL \/ r.effective_to >= as_of) }

_is_standard_required(requirement_row, standard_name) ==
    LET std == Apply(UpperTable, standard_name)
    IN  IF std \notin DOMAIN STANDARD_REQUIREMENT_COLUMNS THEN FALSE
        ELSE requirement_row[STANDARD_REQUIREMENT_COLUMNS[std]]

Keys(rows) == { RowKey(r) : r \in rows }
Get(rows, key) == CHOOSE r \in rows : RowKey(r) = key
SeqRange(sq) == { sq[i] : i \in 1..Len(sq) }

\* Mutant: units are not compared.
_validate_rows_against_requirements_no_unit_check(reqs, standard_name, effective_from, rows) ==
    LET required == { r \in _active_requirement_rows(reqs, effective_from) :
                        _is_standard_required(r, standard_name) }
        row_set == SeqRange(rows)
    IN  IF required = {}
        THEN [error |-> <<"No active mandatory requirement rows configured for standard", standard_name>>,
              missing |-> {}, unit_mismatches |-> {}]
        ELSE [error |-> NoError,
              missing |-> { k \in Keys(required) : k \notin Keys(row_set) },
              unit_mismatches |-> {}]

\* Returns [error, missing, unit_mismatches]; rows is the parsed row list.
_validate_rows_against_requirements(reqs, standard_name, effective_from, rows) ==
    LET required == { r \in _active_requirement_rows(reqs, effective_from) :
                        _is_standard_required(r, standard_name) }
        row_set == SeqRange(rows)
    IN  IF required = {}
        THEN [error |-> <<"No active mandatory requirement rows configured for standard", standard_name>>,
              missing |-> {}, unit_mismatches |-> {}]
        ELSE [error |-> NoError,
              missing |-> { k \in Keys(required) : k \notin Keys(row_set) },
              unit_mismatches |->
                 { k \in Keys(required) \cap Keys(row_set) :
                     normalize_unit(Get(row_set, k).unit)
                       # normalize_unit(Get(required, k).canonical_unit) }]

ReleaseValues(vals, release_id) == { v \in vals : v.release_id = release_id }

\* Mutant: missing required parameters do not block.
coverage_ready_ignoring_missing(missing_required, unit_mismatches, missing_source_clause) ==
    unit_mismatches = {} /\ missing_source_clause = {}

\* ready = not missing_required and not unit_mismatches and not missing_source_clause
coverage_ready(missing_required, unit_mismatches, missing_source_clause) ==
    missing_required = {} /\ unit_mismatches = {} /\ missing_source_clause = {}

\* release is the row _require_release returned.
release_coverage_report(reqs, vals, release) ==
    LET release_rows == ReleaseValues(vals, release.release_id)
        standard == Apply(UpperTable, release.standard_name)
        required == { r \in _active_requirement_rows(reqs, release.effective_from) :
                        _is_standard_required(r, standard) }
        missing_required == { k \in Keys(required) : k \notin Keys(release_rows) }
        unit_mismatches ==
            { k \in Keys(required) \cap Keys(release_rows) :
                normalize_unit(Get(release_rows, k).unit)
                  # normalize_unit(Get(required, k).canonical_unit) }
        missing_source_clause ==
            { RowKey(r) : r \in { v \in release_rows : _clean_text(v.source_clause) = "" } }
        ready == coverage_ready(missing_required, unit_mismatches, missing_source_clause)
    IN  IF release_rows = {}
        THEN [ready_for_approval |-> FALSE, ready_for_publish |-> FALSE,
              missing_required |-> {<<"Release has no threshold rows", "">>},
              unit_mismatches |-> {}, missing_source_clause |-> {}]
        ELSE [ready_for_approval |-> ready, ready_for_publish |-> ready,
              missing_required |-> missing_required,
              unit_mismatches |-> unit_mismatches,
              missing_source_clause |-> missing_source_clause]

(***************************************************************************)
(* import_threshold_release.                                               *)
(***************************************************************************)
ParsedCsv == [csv \in CsvInputs |-> parse_threshold_csv(csv)]

\* The coverage gate of the import: the ValueError it raises.
GateError(gate) ==
    IF gate.error # NoError THEN gate.error
    ELSE IF gate.missing # {} \/ gate.unit_mismatches # {} THEN <<"Coverage validation failed">>
    ELSE NoError

\* The checks on the parsed CSV: the ValueError they raise.
CsvError(parsed) ==
    IF parsed.fatal # "" THEN <<parsed.fatal>>
    ELSE IF parsed.errors # <<>> THEN <<"CSV validation failed">>
    ELSE IF parsed.rows = <<>> THEN <<"CSV has no valid threshold rows">>
    ELSE NoError

\* The argument checks, in the order of the code, then the CSV checks and the
\* gate: the ValueError raised (NoError when none) and the cleaned values the
\* writes use.  parsed is the result of parse_threshold_csv on the content.
CheckedImport(req, reqs, parsed) ==
    LET standard == Apply(UpperTable, _clean_text(req.standard_name))
        release_code == _clean_text(req.release_code)
        document_title == _clean_text(req.document_title)
        eff_from == _parse_iso_date(req.effective_from)
        eff_to == _parse_iso_date(req.effective_to)
        authority == _clean_text(req.source_authority)
        pub_date == _parse_iso_date(req.publication_date)
        error ==
            IF standard \notin ALLOWED_STANDARDS THEN <<"standard_name must be one of">>
            ELSE IF release_code = "" THEN <<"release_code is required">>
            ELSE IF document_title = "" THEN <<"document_title is required">>
            ELSE IF eff_from = Invalid THEN <<"Invalid date format">>
            ELSE IF eff_from = NULL THEN <<"effective_from is required">>
            ELSE IF eff_to = Invalid THEN <<"Invalid date format">>
            ELSE IF eff_to # NULL /\ eff_to < eff_from
                 THEN <<"effective_to cannot be earlier than effective_from">>
            ELSE IF authority = "" THEN <<"source_authority is required for authoritative regulatory imports">>
            ELSE IF pub_date = Invalid THEN <<"Invalid date format">>
            ELSE IF pub_date = NULL THEN <<"publication_date is required for authoritative regulatory imports">>
            ELSE IF CsvError(parsed) # NoError THEN CsvError(parsed)
            ELSE GateError(_validate_rows_against_requirements(reqs, standard, eff_from, parsed.rows))
    IN  [error |-> error, standard_name |-> standard, release_code |-> release_code,
         effective_from |-> eff_from, effective_to |-> eff_to,
         imported_by |-> req.imported_by,
         notes |-> OrElse(_clean_text(req.notes), None),
         rows |-> parsed.rows]

ImportChecks(req, reqs) == CheckedImport(req, reqs, ParsedCsv[req.csv])

\* UNIQUE (release_code) on regulatory_threshold_releases: the INSERT raises
\* IntegrityError when a committed release has the code.
release_code_conflict(rels, release_code) ==
    \E i \in 1..Len(rels) : rels[i].release_code = release_code

ValueRow(release_id, i, row) ==
    [value_id |-> <<release_id, i>>, release_id |-> release_id,
     product_category |-> row.product_category, parameter_code |-> row.parameter_code,
     parameter_name |-> row.parameter_name, limit_min |-> row.limit_min,
     limit_max |-> row.limit_max, unit |-> row.unit, severity |-> row.severity,
     source_clause |-> row.source_clause, remarks |-> row.remarks]

\* Mutant: the loop stops one row early.
ImportedValues_skip_last(release_id, rows) ==
    { ValueRow(release_id, i, rows[i]) : i \in 1..(Len(rows) - 1) }

\* The value rows the loop over the parsed rows inserts.
ImportedValues(release_id, rows) ==
    { ValueRow(release_id, i, rows[i]) : i \in 1..Len(rows) }

\* Mutant: a refused call is recorded in the ledger.
Fail_with_audit_entry(op, release_code, release_id, error) ==
    /\ last' = Call(op, release_code, release_id, error, NoReturn)
    /\ audit_logs' \in append_audit_event(audit_logs, "qa1", "CALL_REFUSED", "regulatory_release",
                                        release_id, [error |-> error])
    /\ UNCHANGED <<releases, values, thresholds>>

\* A call that raises ValueError: nothing it wrote is committed.
Fail(op, release_code, release_id, error) ==
    /\ last' = Call(op, release_code, release_id, error, NoReturn)
    /\ UNCHANGED db

\* The release row the first INSERT writes.
ImportRelease(release_id, chk) ==
    [release_id |-> release_id, standard_name |-> chk.standard_name,
     release_code |-> chk.release_code,
     effective_from |-> chk.effective_from, effective_to |-> chk.effective_to,
     review_status |-> "draft", imported_by |-> chk.imported_by,
     approved_by |-> None, approved_at |-> NULL,
     published_by |-> None, published_at |-> NULL,
     notes |-> chk.notes, row_count |-> Len(chk.rows)]

\* The ledgers the import's audit entry may leave.
ImportedAudit(log, release_id, chk) ==
    append_audit_event(log, chk.imported_by,
        "REG_THRESHOLD_RELEASE_IMPORTED", "regulatory_release", release_id,
        [standard_name |-> chk.standard_name, release_code |-> chk.release_code,
         effective_from |-> chk.effective_from, effective_to |-> chk.effective_to,
         row_count |-> Len(chk.rows)])

\* Mutant: the IntegrityError is swallowed, so the value rows and the audit
\* entry of the refused import are written.
ImportWrite_swallowed_conflict(chk) ==
    LET release_id == Len(releases) + 1
    IN  /\ values' = values \cup ImportedValues(release_id, chk.rows)
        /\ audit_logs' \in ImportedAudit(audit_logs, release_id, chk)
        /\ UNCHANGED thresholds
        /\ IF release_code_conflict(releases, chk.release_code)
           THEN /\ last' = Call("import", chk.release_code, 0,
                                <<"release_code", chk.release_code, "already exists">>, NoReturn)
                /\ UNCHANGED releases
           ELSE /\ releases' = Append(releases, ImportRelease(release_id, chk))
                /\ last' = Call("import", chk.release_code, release_id, NoError,
                       [NoReturn EXCEPT !.release_id = release_id, !.review_status = "draft",
                                        !.row_count = Len(chk.rows)])

\* The INSERTs, the audit entry and the commit, for a request that passed
\* ImportChecks (chk is its result).
ImportWrite(chk) ==
    LET release_id == Len(releases) + 1
    IN  IF release_code_conflict(releases, chk.release_code)
        THEN Fail("import", chk.release_code, 0, <<"release_code", chk.release_code, "already exists">>)
        ELSE /\ releases' = Append(releases, ImportRelease(release_id, chk))
             /\ values' = values \cup ImportedValues(release_id, chk.rows)
             /\ audit_logs' \in ImportedAudit(audit_logs, release_id, chk)
             /\ last' = Call("import", chk.release_code, release_id, NoError,
                    [NoReturn EXCEPT !.release_id = release_id, !.review_status = "draft",
                                     !.row_count = Len(chk.rows)])
             /\ UNCHANGED thresholds

\* The outcome of the call whose checks returned chk.
ImportOutcome(chk) ==
    IF chk.error # NoError
    THEN Fail("import", "", 0, chk.error)
    ELSE ImportWrite(chk)

import_threshold_release(req) ==
    /\ ImportOutcome(ImportChecks(req, requirements))
    /\ UNCHANGED <<requirements, txns, elsewhere>>

(***************************************************************************)
(* approve_threshold_release.                                              *)
(***************************************************************************)
ReleaseIds == 1..Len(releases)

\* Mutant: the check for a published release is missing.
approve_branch_no_published_check(review_status) ==
    IF review_status = "approved" THEN "idempotent" ELSE "proceed"

\* Mutant: the shortcut for an approved release is missing.
approve_branch_no_idempotent_return(review_status) ==
    IF review_status = "published" THEN "reject" ELSE "proceed"

\* The two status checks that open approve_threshold_release.
approve_branch(review_status) ==
    IF review_status = "published" THEN "reject"
    ELSE IF review_status = "approved" THEN "idempotent"
    ELSE "proceed"

\* The UPDATE of the release row, the audit entry, the commit and the return;
\* release_code is the code the call read from the row.
ApproveWrite(release_id, approved_by, notes, release_code) ==
    /\ releases' = [releases EXCEPT ![release_id] =
           [@ EXCEPT !.review_status = "approved",
                     !.approved_by = approved_by,
                     !.approved_at = now,
                     !.notes = IF OrElse(_clean_text(notes), None) # None
                               THEN OrElse(_clean_text(notes), None) ELSE @]]
    /\ audit_logs' \in append_audit_event(audit_logs, approved_by,
           "REG_THRESHOLD_RELEASE_APPROVED", "regulatory_release", release_id,
           [release_id |-> release_id, release_code |-> release_code])
    /\ last' = Call("approve", "", release_id, NoError,
           [NoReturn EXCEPT !.release_id = release_id, !.review_status = "approved"])
    /\ UNCHANGED <<values, thresholds>>

approve_threshold_release(release_id, approved_by, notes) ==
    /\ UNCHANGED <<requirements, txns, elsewhere>>
    /\ IF release_id \notin ReleaseIds
       THEN Fail("approve", "", release_id, <<"Release not found">>)
       ELSE LET release == releases[release_id]
                coverage == release_coverage_report(requirements, values, release)
            IN  IF approve_branch(release.review_status) = "reject"
                THEN Fail("approve", "", release_id,
                          <<"Release is already published and cannot be re-approved">>)
                ELSE IF approve_branch(release.review_status) = "idempotent"
                THEN /\ last' = Call("approve", "", release_id, NoError,
                            [NoReturn EXCEPT !.release_id = release_id,
                                             !.review_status = "approved", !.idempotent = TRUE])
                     /\ UNCHANGED db
                ELSE IF ~coverage.ready_for_approval
                THEN Fail("approve", "", release_id,
                          <<"Release cannot be approved until coverage is complete and units/source clauses are valid">>)
                ELSE ApproveWrite(release_id, approved_by, notes, release.release_code)

(***************************************************************************)
(* publish_threshold_release.                                              *)
(***************************************************************************)
\* Mutant: the UPDATE does not filter on standard_name.
ClosedByPublish_any_standard(thr, release, rows) ==
    { c \in thr : /\ c.effective_to = NULL
                  /\ c.effective_from <= release.effective_from
                  /\ \E r \in rows : /\ r.product_category = c.product_category
                                     /\ r.parameter_code = c.parameter_code }

\* The rows the UPDATE of compliance_thresholds matches.
ClosedByPublish(thr, release, rows) ==
    { c \in thr : /\ c.standard_name = release.standard_name
                  /\ c.effective_to = NULL
                  /\ c.effective_from <= release.effective_from
                  /\ \E r \in rows : /\ r.product_category = c.product_category
                                     /\ r.parameter_code = c.parameter_code }

\* The row the INSERT writes for one value row; threshold_id is a fresh id.
InsertedByPublish(thr, release, row) ==
    [threshold_id |-> <<Cardinality(thr), row.value_id>>,
     parameter_code |-> row.parameter_code,
     standard_name |-> release.standard_name,
     product_category |-> row.product_category,
     limit_min |-> row.limit_min, limit_max |-> row.limit_max,
     unit |-> row.unit, severity |-> row.severity,
     effective_from |-> release.effective_from,
     effective_to |-> release.effective_to,
     source_ref |-> IF row.source_clause # None /\ row.source_clause # ""
                    THEN <<release.release_code, row.source_clause>>
                    ELSE <<release.release_code>>]

\* Mutant: only a published release is refused.
publish_status_ok_draft_allowed(review_status) == review_status # "published"

\* The status check that opens publish_threshold_release.
publish_status_ok(review_status) == review_status = "approved"

\* The writes of a publish and its commit: the rows the close UPDATE matched
\* get the close date, the release's value rows are INSERTed, the release
\* row is UPDATEd, the audit entry is appended and the call returns.
PublishWrite(release_id, published_by, release, closed, rows) ==
    /\ thresholds' = (thresholds \ closed)
           \cup { [c EXCEPT !.effective_to = release.effective_from - 1] : c \in closed }
           \cup { InsertedByPublish(thresholds, release, r) : r \in rows }
    /\ releases' = [releases EXCEPT ![release_id] =
           [@ EXCEPT !.review_status = "published",
                     !.published_by = published_by,
                     !.published_at = now]]
    /\ audit_logs' \in append_audit_event(audit_logs, published_by,
           "REG_THRESHOLD_RELEASE_PUBLISHED", "regulatory_release", release_id,
           [release_id |-> release_id, standard_name |-> release.standard_name,
            release_code |-> release.release_code,
            closed_previous_rows |-> Cardinality(closed),
            inserted_rows |-> Cardinality(rows),
            effective_from |-> release.effective_from,
            effective_to |-> release.effective_to])
    /\ last' = Call("publish", "", release_id, NoError,
           [NoReturn EXCEPT !.release_id = release_id,
                            !.review_status = "published",
                            !.closed_previous_rows = Cardinality(closed),
                            !.inserted_rows = Cardinality(rows)])
    /\ UNCHANGED values

publish_threshold_release(release_id, published_by) ==
    /\ UNCHANGED <<requirements, txns, elsewhere>>
    /\ IF release_id \notin ReleaseIds
       THEN Fail("publish", "", release_id, <<"Release not found">>)
       ELSE LET release == releases[release_id]
                coverage == release_coverage_report(requirements, values, release)
                rows == ReleaseValues(values, release_id)
                closed == ClosedByPublish(thresholds, release, rows)
            IN  IF ~publish_status_ok(release.review_status)
                THEN Fail("publish", "", release_id, <<"Release must be approved before publish">>)
                ELSE IF ~coverage.ready_for_publish
                THEN Fail("publish", "", release_id,
                          <<"Release cannot be published until coverage is complete and units/source clauses are valid">>)
                ELSE IF rows = {}
                THEN Fail("publish", "", release_id, <<"Release has no threshold rows to publish">>)
                ELSE PublishWrite(release_id, published_by, release, closed, rows)

(***************************************************************************)
(* The requirement profile (regulatory_parameter_requirements) is edited   *)
(* outside the governance calls: a row is put in place for its key, or the *)
(* key's row is removed.                                                   *)
(***************************************************************************)
SetRequirement(row) ==
    /\ row \notin requirements
    /\ requirements' = { r \in requirements : RowKey(r) # RowKey(row) } \cup {row}
    /\ last' = Call("requirements", "", 0, NoError, NoReturn)
    /\ UNCHANGED <<db, txns, elsewhere>>

RemoveRequirement(row) ==
    /\ row \in requirements
    /\ requirements' = requirements \ {row}
    /\ last' = Call("requirements", "", 0, NoError, NoReturn)
    /\ UNCHANGED <<db, txns, elsewhere>>

(***************************************************************************)
(* Sequential calls: every call runs to its commit or its error before the *)
(* next one starts.  The three specifications differ in the arguments the  *)
(* callers pass.                                                           *)
(***************************************************************************)
ApproveArgs == { <<"qa1", None>>, <<"qa2", "reviewed">> }

Next ==
    \/ \E req \in LifecycleRequests : import_threshold_release(req)
    \/ \E release_id \in 1..(Len(releases) + 1), a \in ApproveArgs :
          approve_threshold_release(release_id, a[1], a[2])
    \/ \E release_id \in 1..(Len(releases) + 1) : publish_threshold_release(release_id, "qa1")
    \/ \E row \in {ReqA, ReqT} : SetRequirement(row)
    \/ \E row \in {ReqA, ReqT} : RemoveRequirement(row)

Spec == Init /\ [][Next]_vars

NextGate ==
    \/ \E req \in GateRequests : import_threshold_release(req)
    \/ \E row \in RequirementRows : SetRequirement(row)
    \/ \E row \in RequirementRows : RemoveRequirement(row)

SpecGate == Init /\ [][NextGate]_vars

NextCutover ==
    \/ \E req \in CutoverRequests : import_threshold_release(req)
    \/ \E release_id \in 1..Len(releases) : approve_threshold_release(release_id, "qa2", None)
    \/ \E release_id \in 1..Len(releases) : publish_threshold_release(release_id, "qa1")
    \/ SetRequirement(ReqA)
    \/ RemoveRequirement(ReqA)

SpecCutover == Init /\ [][NextCutover]_vars

(***************************************************************************)
(* A review that turns a draft down sets its status to 'rejected'.  The    *)
(* status is one of ALLOWED_REVIEW_STATUS; the write itself is made        *)
(* outside the governance service.                                         *)
(***************************************************************************)
reject_threshold_release(release_id) ==
    /\ release_id \in ReleaseIds
    /\ releases[release_id].review_status = "draft"
    /\ releases' = [releases EXCEPT ![release_id] = [@ EXCEPT !.review_status = "rejected"]]
    /\ last' = Call("reject", "", release_id, NoError, NoReturn)
    /\ UNCHANGED <<values, thresholds, audit_logs, requirements, txns, elsewhere>>

NextReject ==
    \/ \E req \in RaceRequests : import_threshold_release(req)
    \/ \E release_id \in 1..Len(releases) : reject_threshold_release(release_id)
    \/ \E release_id \in 1..Len(releases), a \in ApproveArgs :
          approve_threshold_release(release_id, a[1], a[2])
    \/ \E release_id \in 1..Len(releases) : publish_threshold_release(release_id, "qa1")
    \/ SetRequirement(ReqA)
    \/ RemoveRequirement(ReqA)

SpecReject == Init /\ [][NextReject]_vars

(***************************************************************************)
(* Concurrent approvals.  Each transaction reads the release and makes the *)
(* checks of approve_threshold_release, then, as one step, its UPDATE, its *)
(* audit entry and its commit.  The UPDATE names the row by release_id     *)
(* alone.  When the row has changed since the transaction read it, the     *)
(* store either applies the UPDATE to the committed row or raises a        *)
(* serialization failure, according to its isolation level.                *)
(***************************************************************************)
approve_begin(t, release_id, approved_by) ==
    /\ txns[t].state = "idle"
    /\ release_id \in ReleaseIds
    /\ approve_branch(releases[release_id].review_status) = "proceed"
    /\ release_coverage_report(requirements, values, releases[release_id]).ready_for_approval
    /\ txns' = [txns EXCEPT ![t] = [state |-> "checked", release_id |-> release_id,
                                    approved_by |-> approved_by, read |-> releases[release_id]]]
    /\ last' = Call("approve_begin", "", release_id, NoError, NoReturn)
    /\ UNCHANGED <<db, requirements, elsewhere>>

\* The store's answer to an UPDATE of a row another transaction has changed.
StoreApplies(read, row) == IF read = row THEN {TRUE} ELSE {TRUE, FALSE}

approve_write(t) ==
    /\ txns[t].state = "checked"
    /\ \E applies \in StoreApplies(txns[t].read, releases[txns[t].release_id]) :
          IF applies
          THEN ApproveWrite(txns[t].release_id, txns[t].approved_by, None,
                            txns[t].read.release_code)
          ELSE Fail("approve", "", txns[t].release_id, <<"SerializationFailure">>)
    /\ txns' = [txns EXCEPT ![t] = Idle]
    /\ UNCHANGED <<requirements, elsewhere>>

NextApprove ==
    \/ \E code \in ReleaseCodes :
          import_threshold_release([GoodRequest EXCEPT !.release_code = code])
    \/ SetRequirement(ReqA)
    \/ \E t \in 1..MaxTxns, release_id \in 1..Len(releases), approved_by \in Actors :
          approve_begin(t, release_id, approved_by)
    \/ \E t \in 1..MaxTxns : approve_write(t)
    \/ \E release_id \in 1..Len(releases) : approve_threshold_release(release_id, "qa1", None)

SpecApprove == Init /\ [][NextApprove]_vars

(***************************************************************************)
(* Concurrent imports.  Each transaction runs the checks of                *)
(* import_threshold_release, then, as one step, its INSERTs, its audit     *)
(* entry and its commit: an INSERT of a release_code that another          *)
(* transaction has inserted waits for that transaction's commit and then   *)
(* raises IntegrityError.                                                  *)
(***************************************************************************)
ValidatedImport(t, chk) ==
    IF chk.error # NoError
    THEN Fail("import", "", 0, chk.error) /\ UNCHANGED txns
    ELSE /\ txns' = [txns EXCEPT ![t] = [state |-> "validated", chk |-> chk]]
         /\ last' = Call("begin_import", chk.release_code, 0, NoError, NoReturn)
         /\ UNCHANGED db

begin_import(t, req) ==
    /\ txns[t].state = "idle"
    /\ ValidatedImport(t, ImportChecks(req, requirements))
    /\ UNCHANGED <<requirements, elsewhere>>

insert_import(t) ==
    /\ txns[t].state = "validated"
    /\ ImportWrite(txns[t].chk)
    /\ txns' = [txns EXCEPT ![t] = Idle]
    /\ UNCHANGED <<requirements, elsewhere>>

NextRace ==
    \/ \E t \in 1..MaxTxns, req \in RaceRequests : begin_import(t, req)
    \/ \E t \in 1..MaxTxns : insert_import(t)
    \/ SetRequirement(ReqA)
    \/ RemoveRequirement(ReqA)

SpecRace == Init /\ [][NextRace]_vars

(***************************************************************************)
(* CCP monitoring: ingest_ccp_log.  Values, limits and margins are whole   *)
(* numbers; the comparisons with a margin are made on hundredths.          *)
(***************************************************************************)
governance == <<releases, values, thresholds, requirements, txns>>

_is_outside(value, limit_min, limit_max) ==
    IF limit_min # NULL /\ value < limit_min THEN TRUE
    ELSE IF limit_max # NULL /\ value > limit_max THEN TRUE
    ELSE FALSE

_is_near(value, limit_min, limit_max, warn_margin_pct) ==
    IF limit_max # NULL /\ 100 * value >= limit_max * (100 - warn_margin_pct) THEN TRUE
    ELSE IF limit_min # NULL /\ 100 * value <= limit_min * (100 + warn_margin_pct) THEN TRUE
    ELSE FALSE

\* alert_type for one rule; None when the rule raises no alert.
alert_type_of(rule, metric_value) ==
    IF _is_outside(metric_value, rule.limit_min, rule.limit_max) THEN "CCP_DEVIATION"
    ELSE IF _is_near(metric_value, rule.limit_min, rule.limit_max, rule.warn_margin_pct)
    THEN "CCP_WARNING"
    ELSE None

\* The rows of production_batches and the active rows of ccp_rules for the
\* monitored metric, newest first.
Batches == {"B1"}
RuleHold == [rule_id |-> 1, limit_min |-> NULL, limit_max |-> 80, warn_margin_pct |-> 10]
RuleCook == [rule_id |-> 2, limit_min |-> 20, limit_max |-> 100, warn_margin_pct |-> 10]
RuleTables == { <<>>, <<RuleHold>>, <<RuleCook, RuleHold>> }
MetricValues == {50, 75, 95}

\* The alert rows the loop over the rules inserts, in order; alert_id and
\* ccp_log_id are fresh ids.
RECURSIVE GeneratedAlerts(_, _, _, _, _)
GeneratedAlerts(rules, n, metric_value, ccp_log_id, first_id) ==
    IF n = 0 THEN <<>>
    ELSE LET before == GeneratedAlerts(rules, n - 1, metric_value, ccp_log_id, first_id)
         IN  IF alert_type_of(rules[n], metric_value) = None THEN before
             ELSE Append(before,
                    [alert_id |-> first_id + Len(before), ccp_log_id |-> ccp_log_id,
                     alert_type |-> alert_type_of(rules[n], metric_value),
                     severity |-> IF alert_type_of(rules[n], metric_value) = "CCP_DEVIATION"
                                  THEN "critical" ELSE "warning",
                     status |-> "open", rule_id |-> rules[n].rule_id,
                     metric_value |-> metric_value])

\* The ledgers the loop may leave after the audit entries of the first n
\* generated alerts: each append reads the ledger the transaction sees.
RECURSIVE AlertLedgers(_, _, _, _)
AlertLedgers(log, generated, n, actor_id) ==
    IF n = 0 THEN {log}
    ELSE UNION { append_audit_event(l, actor_id, "CCP_ALERT_CREATED", "alert",
                     generated[n].alert_id,
                     [rule_id |-> generated[n].rule_id,
                      metric_value |-> generated[n].metric_value,
                      alert_type |-> generated[n].alert_type,
                      severity |-> generated[n].severity]) :
                 l \in AlertLedgers(log, generated, n - 1, actor_id) }

\* The ledgers the call may leave: the alert entries, then CCP_LOG_INGESTED.
IngestLedgers(log, generated, actor_id, ccp_log_id, batch_code, metric_value) ==
    UNION { append_audit_event(l, actor_id, "CCP_LOG_INGESTED", "ccp_log", ccp_log_id,
                [batch_code |-> batch_code, metric_value |-> metric_value,
                 generated_alerts |-> Len(generated)]) :
            l \in AlertLedgers(log, generated, Len(generated), actor_id) }

\* The writes of a call whose batch exists; generated is the list of alerts.
IngestWrite(batch_code, metric_value, actor_id, ccp_log_id, generated) ==
    /\ ccp_logs' = Append(ccp_logs, [ccp_log_id |-> ccp_log_id, batch_code |-> batch_code,
                                      metric_value |-> metric_value])
    /\ alerts' = alerts \o generated
    /\ audit_logs' \in IngestLedgers(audit_logs, generated, actor_id, ccp_log_id,
                                      batch_code, metric_value)
    /\ last' = Call("ingest_ccp_log", batch_code, ccp_log_id, NoError,
                    [NoReturn EXCEPT !.row_count = Len(generated)])

ingest_ccp_log(batch_code, metric_value, operator_id, rules) ==
    /\ Len(audit_logs) + Len(rules) + 1 <= MaxLedger
    /\ IF batch_code \notin Batches
       THEN /\ last' = Call("ingest_ccp_log", batch_code, 0, <<"Batch not found">>, NoReturn)
            /\ UNCHANGED <<audit_logs, ccp_tables>>
       ELSE IngestWrite(batch_code, metric_value, OrElse(operator_id, "system"),
                        Len(ccp_logs) + 1,
                        GeneratedAlerts(rules, Len(rules), metric_value,
                                        Len(ccp_logs) + 1, Len(alerts) + 1))
    /\ UNCHANGED <<governance, clock_lag, scoring_tables, lab_tables, pack_store>>

(***************************************************************************)
(* Risk scoring (score_batch_and_store), the anomaly scan                  *)
(* (run_anomaly_scan) and the daily cycle (run_daily_cycle), which calls   *)
(* both and commits after each.                                            *)
(***************************************************************************)
BatchId(batch_code) == 1

\* The writes of score_batch_and_store for an existing batch.
ScoreWrite(batch_code, actor_id) ==
    /\ ai_risk_scores' = Append(ai_risk_scores,
            [risk_id |-> Len(ai_risk_scores) + 1, entity_type |-> "batch",
             entity_id |-> BatchId(batch_code)])
    /\ audit_logs' \in append_audit_event(audit_logs, actor_id, "BATCH_RISK_SCORED", "batch",
                                          BatchId(batch_code), [batch_code |-> batch_code])
    /\ last' = Call("score_batch_and_store", batch_code, BatchId(batch_code), NoError, NoReturn)

score_batch_and_store(batch_code, actor_id) ==
    /\ Len(audit_logs) < MaxLedger
    /\ IF batch_code \notin Batches
       THEN /\ last' = Call("score_batch_and_store", batch_code, 0, <<"Batch not found">>, NoReturn)
            /\ UNCHANGED <<audit_logs, ai_risk_scores>>
       ELSE ScoreWrite(batch_code, actor_id)
    /\ UNCHANGED <<governance, clock_lag, ccp_tables, anomaly_events, automation_runs, lab_tables, pack_store>>

RECURSIVE PowerSum(_, _, _, _)
PowerSum(logs, lo, hi, squared) ==
    IF hi < lo THEN 0
    ELSE PowerSum(logs, lo, hi - 1, squared)
         + (IF squared THEN logs[hi].metric_value * logs[hi].metric_value
            ELSE logs[hi].metric_value)

\* The z-score test of row i against the at most 20 rows before it:
\* |z| >= threshold, with threshold = num / den, on squares.
Deviates(logs, i, num, den) ==
    LET lo == IF i > 20 THEN i - 20 ELSE 1
        n == i - lo
        total == PowerSum(logs, lo, i - 1, FALSE)
        squares == PowerSum(logs, lo, i - 1, TRUE)
        spread == n * squares - total * total
        gap == n * logs[i].metric_value - total
    IN  /\ n >= 10
        /\ spread > 0
        /\ den * den * gap * gap * (n - 1) >= num * num * n * spread

\* The rows of ccp_logs the scan flags.
Anomalies(logs) == { i \in 1..Len(logs) : Deviates(logs, i, 5, 2) }

RECURSIVE AnomalyAlerts(_, _, _)
AnomalyAlerts(logs, n, first_id) ==
    IF n = 0 THEN <<>>
    ELSE LET before == AnomalyAlerts(logs, n - 1, first_id)
         IN  IF n \notin Anomalies(logs) THEN before
             ELSE Append(before,
                    [alert_id |-> first_id + Len(before), ccp_log_id |-> logs[n].ccp_log_id,
                     alert_type |-> "PROCESS_ANOMALY",
                     severity |-> IF Deviates(logs, n, 4, 1) THEN "critical" ELSE "warning",
                     status |-> "open", rule_id |-> 0,
                     metric_value |-> logs[n].metric_value])

\* The writes of run_anomaly_scan; INSERT ... ON CONFLICT DO NOTHING keeps one
\* anomaly_events row per source row.
ScanWrite(actor_id) ==
    /\ anomaly_events' = anomaly_events \cup { ccp_logs[i].ccp_log_id : i \in Anomalies(ccp_logs) }
    /\ alerts' = alerts \o AnomalyAlerts(ccp_logs, Len(ccp_logs), Len(alerts) + 1)
    /\ audit_logs' \in append_audit_event(audit_logs, actor_id, "ANOMALY_SCAN_RUN",
                          "anomaly_scan", now + 1, [created |-> Cardinality(Anomalies(ccp_logs))])
    /\ last' = Call("run_anomaly_scan", "", 0, NoError,
                    [NoReturn EXCEPT !.row_count = Cardinality(Anomalies(ccp_logs))])

run_anomaly_scan(actor_id) ==
    /\ Len(audit_logs) < MaxLedger
    /\ ScanWrite(actor_id)
    /\ UNCHANGED <<governance, clock_lag, ccp_logs, ai_risk_scores, automation_runs, lab_tables, pack_store>>

\* run_daily_cycle up to its first commit: skipped while a run is running,
\* otherwise a running row is inserted.
Running == { r \in 1..Len(automation_runs) : automation_runs[r].status = "running" }

run_daily_cycle(actor_id) ==
    /\ Running # {} \/ Len(automation_runs) < MaxRuns
    /\ IF Running # {}
       THEN /\ last' = Call("run_daily_cycle", "", 0, <<"daily cycle already running">>, NoReturn)
            /\ UNCHANGED automation_runs
       ELSE /\ automation_runs' = Append(automation_runs,
                   [status |-> "running", actor_id |-> actor_id, at |-> "scores"])
            /\ last' = Call("run_daily_cycle", "", Len(automation_runs) + 1, NoError, NoReturn)
    /\ UNCHANGED <<governance, clock_lag, audit_logs, ccp_tables, ai_risk_scores, anomaly_events, lab_tables, pack_store>>

\* The loop over the recent batches: score_batch_and_store commits each score.
daily_cycle_scores(run_id, batch_code) ==
    /\ run_id \in Running
    /\ automation_runs[run_id].at = "scores"
    /\ Len(audit_logs) < MaxLedger
    /\ ScoreWrite(batch_code, automation_runs[run_id].actor_id)
    /\ automation_runs' = [automation_runs EXCEPT ![run_id].at = "scan"]
    /\ UNCHANGED <<governance, clock_lag, ccp_tables, anomaly_events, lab_tables, pack_store>>

\* run_anomaly_scan inside the cycle, committed by the scan.
daily_cycle_scan(run_id) ==
    /\ run_id \in Running
    /\ automation_runs[run_id].at = "scan"
    /\ Len(audit_logs) < MaxLedger
    /\ ScanWrite(automation_runs[run_id].actor_id)
    /\ automation_runs' = [automation_runs EXCEPT ![run_id].at = "summary"]
    /\ UNCHANGED <<governance, clock_lag, ccp_logs, ai_risk_scores, lab_tables, pack_store>>

\* The summary UPDATE, the DAILY_AUTOMATION_COMPLETED entry and the commit.
daily_cycle_completed(run_id) ==
    /\ run_id \in Running
    /\ automation_runs[run_id].at = "summary"
    /\ Len(audit_logs) < MaxLedger
    /\ automation_runs' = [automation_runs EXCEPT ![run_id].status = "completed"]
    /\ audit_logs' \in append_audit_event(audit_logs, automation_runs[run_id].actor_id,
                          "DAILY_AUTOMATION_COMPLETED", "automation_run", run_id,
                          [batch_scored |-> Cardinality(Batches)])
    /\ last' = Call("run_daily_cycle", "", run_id, NoError,
                    [NoReturn EXCEPT !.review_status = "completed"])
    /\ UNCHANGED <<governance, clock_lag, ccp_tables, ai_risk_scores, anomaly_events, lab_tables, pack_store>>

\* An exception inside the cycle: rollback of what is not committed, then the
\* run is marked failed.
daily_cycle_failed(run_id) ==
    /\ run_id \in Running
    /\ automation_runs' = [automation_runs EXCEPT ![run_id].status = "failed"]
    /\ last' = Call("run_daily_cycle", "", run_id, <<"failed">>,
                    [NoReturn EXCEPT !.review_status = "failed"])
    /\ UNCHANGED <<governance, clock_lag, audit_logs, ccp_tables, ai_risk_scores, anomaly_events, lab_tables, pack_store>>

(***************************************************************************)
(* run_daily_cycle called by several callers at once.  Each caller makes   *)
(* the lookup of a running run, then the INSERT with its commit.  The      *)
(* store refuses a second 'running' DAILY_CYCLE row with IntegrityError,   *)
(* which the handler turns into a second lookup and a 'skipped' return.    *)
(***************************************************************************)
\* The store's answer to the INSERT of a running row.
running_conflict(runs) == \E r \in 1..Len(runs) : runs[r].status = "running"

\* Mutant: the lookup has no status filter.
LatestRunning_any_status(runs) ==
    { r \in 1..Len(runs) : r = Len(runs) }

\* SELECT run_id ... WHERE status = 'running' ORDER BY started_at DESC
\* LIMIT 1: empty, or the latest running run.
LatestRunning(runs) ==
    { r \in 1..Len(runs) :
        /\ runs[r].status = "running"
        /\ \A q \in 1..Len(runs) : runs[q].status = "running" => q <= r }

\* The 'skipped' return; running_run_id is 0 when the lookup found nothing.
Skipped(found) ==
    Call("run_daily_cycle", "", IF found = {} THEN 0 ELSE CHOOSE r \in found : TRUE,
         <<"daily cycle already running">>,
         [NoReturn EXCEPT !.review_status = "skipped",
                          !.release_id = IF found = {} THEN 0 ELSE CHOOSE r \in found : TRUE])

daily_cycle_select(t, actor_id) ==
    /\ txns[t].state = "idle"
    /\ LatestRunning(automation_runs) # {} \/ Len(automation_runs) < MaxRuns
    /\ IF LatestRunning(automation_runs) # {}
       THEN /\ last' = Skipped(LatestRunning(automation_runs))
            /\ UNCHANGED txns
       ELSE /\ txns' = [txns EXCEPT ![t] = [state |-> "selected", actor_id |-> actor_id]]
            /\ last' = Call("daily_cycle_select", "", 0, NoError, NoReturn)
    /\ UNCHANGED <<releases, values, thresholds, requirements, audit_logs, elsewhere>>

daily_cycle_insert(t) ==
    /\ txns[t].state = "selected"
    /\ IF running_conflict(automation_runs)
       THEN /\ txns' = [txns EXCEPT ![t] = [state |-> "conflict", actor_id |-> txns[t].actor_id]]
            /\ last' = Call("daily_cycle_insert", "", 0, <<"IntegrityError">>, NoReturn)
            /\ UNCHANGED automation_runs
       ELSE /\ automation_runs' = Append(automation_runs,
                   [status |-> "running", actor_id |-> txns[t].actor_id, at |-> "scores"])
            /\ txns' = [txns EXCEPT ![t] = Idle]
            /\ last' = Call("daily_cycle_insert", "", Len(automation_runs) + 1, NoError, NoReturn)
    /\ UNCHANGED <<releases, values, thresholds, requirements, audit_logs, clock_lag, ccp_tables,
                   ai_risk_scores, anomaly_events, lab_tables, pack_store>>

\* The handler of IntegrityError: rollback, the lookup again, 'skipped'.
daily_cycle_reselect(t) ==
    /\ txns[t].state = "conflict"
    /\ txns' = [txns EXCEPT ![t] = Idle]
    /\ last' = Skipped(LatestRunning(automation_runs))
    /\ UNCHANGED <<releases, values, thresholds, requirements, audit_logs, elsewhere>>

NextDaily ==
    \/ \E t \in 1..MaxTxns, actor_id \in {"system.scheduler", "qa1"} :
          daily_cycle_select(t, actor_id)
    \/ \E t \in 1..MaxTxns : daily_cycle_insert(t)
    \/ \E t \in 1..MaxTxns : daily_cycle_reselect(t)
    \/ \E run_id \in 1..(MaxRuns + MaxTxns) :
          \/ \E batch_code \in Batches : daily_cycle_scores(run_id, batch_code)
          \/ daily_cycle_scan(run_id)
          \/ daily_cycle_completed(run_id)
          \/ daily_cycle_failed(run_id)

SpecDaily == Init /\ [][NextDaily]_vars

(***************************************************************************)
(* Lab-report ingestion: ingest_lab_report.  extracted_rows is what         *)
(* parse_lab_text finds in the text of the PDF.                            *)
(***************************************************************************)
LabRow == [parameter_name |-> "Aflatoxin B1", observed_value |-> 4, unit |-> "ppb"]
ExtractedRows == { <<>>, <<LabRow>> }

\* SELECT report_id, version_no ... ORDER BY version_no DESC LIMIT 1: the
\* reports of the batch and laboratory with the greatest version_no.
LatestReports(reports, batch_code, lab_name) ==
    LET mine == { i \in 1..Len(reports) :
                    reports[i].batch_code = batch_code /\ reports[i].lab_name = lab_name }
    IN  { reports[i] : i \in { j \in mine :
                                \A k \in mine : reports[k].version_no <= reports[j].version_no } }

\* The lab_reports row INSERTed; prev is the latest report or NoRow.
LabReport(report_id, batch_code, uploaded_by, lab_name, prev) ==
    [report_id |-> report_id, batch_code |-> batch_code,
     lab_name |-> lab_name, uploaded_by |-> uploaded_by,
     version_no |-> IF prev = NoRow THEN 1 ELSE prev[1].version_no + 1,
     supersedes_report_id |-> IF prev = NoRow THEN NULL ELSE prev[1].report_id]

\* The body of ingest_lab_report: the error result for an unknown batch, or
\* the INSERTs of the report and of its extracted rows and the commit.
LabWrite(batch_code, uploaded_by, lab_name, extracted_rows) ==
    IF batch_code \notin Batches
    THEN /\ last' = Call("ingest_lab_report", batch_code, 0, <<"Batch not found">>, NoReturn)
         /\ UNCHANGED <<lab_reports, quality_test_records>>
    ELSE /\ \E prev \in IF LatestReports(lab_reports, batch_code, lab_name) = {} THEN {NoRow}
                       ELSE { <<r>> : r \in LatestReports(lab_reports, batch_code, lab_name) } :
                lab_reports' = Append(lab_reports,
                    LabReport(Len(lab_reports) + 1, batch_code, uploaded_by, lab_name, prev))
         /\ quality_test_records' = quality_test_records \cup
                { [report_id |-> Len(lab_reports) + 1, row |-> i, batch_code |-> batch_code,
                   parameter_code |-> normalize_parameter_code(extracted_rows[i].parameter_name),
                   parameter_name |-> extracted_rows[i].parameter_name,
                   observed_value |-> extracted_rows[i].observed_value,
                   unit |-> extracted_rows[i].unit] : i \in 1..Len(extracted_rows) }
         /\ last' = Call("ingest_lab_report", batch_code, Len(lab_reports) + 1, NoError,
                         [NoReturn EXCEPT !.row_count = Len(extracted_rows)])

ingest_lab_report(batch_code, uploaded_by, lab_name, extracted_rows) ==
    /\ Len(lab_reports) < MaxReports
    /\ LabWrite(batch_code, uploaded_by, lab_name, extracted_rows)
    /\ UNCHANGED <<governance, clock_lag, audit_logs, ccp_tables, scoring_tables, pack_store,
                   ingestion_jobs>>

(***************************************************************************)
(* Ingestion jobs: create_ingestion_job stores the PDF and a queued job,   *)
(* and the route hands the job to process_ingestion_job as a background    *)
(* task.  pdf is what the stored file yields, the rows parse_lab_text      *)
(* finds; readable is false when reading or parsing the file raises.  at   *)
(* is the position of the task.                                            *)
(***************************************************************************)
create_ingestion_job(batch_code, uploaded_by, lab_name, pdf, readable) ==
    /\ Len(ingestion_jobs) < MaxJobs
    /\ ingestion_jobs' = Append(ingestion_jobs,
           [status |-> "queued", batch_code |-> batch_code, uploaded_by |-> uploaded_by,
            lab_name |-> lab_name, pdf |-> pdf, readable |-> readable, at |-> "start",
            result |-> [error |-> NoError, report_id |-> 0]])
    /\ last' = Call("create_ingestion_job", batch_code, Len(ingestion_jobs) + 1, NoError, NoReturn)
    /\ UNCHANGED <<governance, clock_lag, audit_logs, ccp_tables, scoring_tables, pack_store,
                   lab_reports, quality_test_records>>

\* The SELECT of the job, the UPDATE to 'processing' and its commit.
process_ingestion_job_start(job_id) ==
    /\ job_id \in 1..Len(ingestion_jobs)
    /\ ingestion_jobs[job_id].at = "start"
    /\ ingestion_jobs' = [ingestion_jobs EXCEPT ![job_id].status = "processing",
                                                ![job_id].at = "ingest"]
    /\ last' = Call("process_ingestion_job_start", "", job_id, NoError, NoReturn)
    /\ UNCHANGED <<governance, clock_lag, audit_logs, ccp_tables, scoring_tables, pack_store,
                   lab_reports, quality_test_records>>

\* The call of ingest_lab_report; its return value is kept as result.
process_ingestion_job_ingest(job_id) ==
    /\ job_id \in 1..Len(ingestion_jobs)
    /\ ingestion_jobs[job_id].at = "ingest"
    /\ ingestion_jobs[job_id].readable
    /\ LabWrite(ingestion_jobs[job_id].batch_code, ingestion_jobs[job_id].uploaded_by,
                ingestion_jobs[job_id].lab_name, ingestion_jobs[job_id].pdf)
    /\ ingestion_jobs' = [ingestion_jobs EXCEPT
           ![job_id].at = "finish",
           ![job_id].result = [error |-> last'.error, report_id |-> last'.release_id]]
    /\ UNCHANGED <<governance, clock_lag, audit_logs, ccp_tables, scoring_tables, pack_store>>

\* The UPDATE to 'completed' with the result, and its commit.
process_ingestion_job_finish(job_id) ==
    /\ job_id \in 1..Len(ingestion_jobs)
    /\ ingestion_jobs[job_id].at = "finish"
    /\ ingestion_jobs' = [ingestion_jobs EXCEPT ![job_id].status = "completed",
                                                ![job_id].at = "done"]
    /\ last' = Call("process_ingestion_job", "", job_id, NoError, NoReturn)
    /\ UNCHANGED <<governance, clock_lag, audit_logs, ccp_tables, scoring_tables, pack_store,
                   lab_reports, quality_test_records>>

\* Reading or parsing the file raises: rollback, the UPDATE to 'failed'.
process_ingestion_job_failed(job_id) ==
    /\ job_id \in 1..Len(ingestion_jobs)
    /\ ingestion_jobs[job_id].at = "ingest"
    /\ ~ingestion_jobs[job_id].readable
    /\ ingestion_jobs' = [ingestion_jobs EXCEPT ![job_id].status = "failed",
                                                ![job_id].at = "done"]
    /\ last' = Call("process_ingestion_job", "", job_id, <<"failed">>, NoReturn)
    /\ UNCHANGED <<governance, clock_lag, audit_logs, ccp_tables, scoring_tables, pack_store,
                   lab_reports, quality_test_records>>

process_ingestion_job(job_id) ==
    \/ process_ingestion_job_start(job_id)
    \/ process_ingestion_job_ingest(job_id)
    \/ process_ingestion_job_finish(job_id)
    \/ process_ingestion_job_failed(job_id)

NextJobs ==
    \/ \E batch_code \in Batches \cup {"BX"}, uploaded_by \in Actors,
          pdf \in ExtractedRows, readable \in BOOLEAN :
          create_ingestion_job(batch_code, uploaded_by, "LabOne", pdf, readable)
    \/ \E job_id \in 1..MaxJobs : process_ingestion_job_start(job_id)
    \/ \E job_id \in 1..MaxJobs : process_ingestion_job_ingest(job_id)
    \/ \E job_id \in 1..MaxJobs : process_ingestion_job_finish(job_id)
    \/ \E job_id \in 1..MaxJobs : process_ingestion_job_failed(job_id)

\* The background task of a job runs to its end.
SpecJobs ==
    /\ Init
    /\ [][NextJobs]_vars
    /\ \A job_id \in 1..MaxJobs : WF_vars(process_ingestion_job(job_id))

(***************************************************************************)
(* Audit packs: generate_audit_pack and verify_audit_pack.  A file is a    *)
(* sequence holding its content, empty when the file does not exist; the   *)
(* digest of a file is kept as the content it was computed from.           *)
(***************************************************************************)
_sha256_file(file) == sha256(file[1])

\* list_audit_events without filters: the ledger ORDER BY event_time DESC, in
\* every order the store may give to rows that share an event_time.
list_audit_events(log) ==
    { [i \in 1..Len(log) |-> log[perm[i]]] :
        perm \in { f \in [1..Len(log) -> 1..Len(log)] :
                     /\ \A i, j \in 1..Len(log) : i # j => f[i] # f[j]
                     /\ \A i, j \in 1..Len(log) :
                           i < j => log[f[i]].event_time >= log[f[j]].event_time } }

Manifest(pack_id, created_by, rows) ==
    [pack_id |-> pack_id, created_by |-> created_by, row_count |-> Len(rows)]

\* checksums.json: a JSON object of the digests of the two other files.
Checksums(csv_file, manifest_file) ==
    [json |-> TRUE, csv |-> _sha256_file(csv_file), manifest |-> _sha256_file(manifest_file)]

\* The three files generate_audit_pack writes for the exported rows.
PackFiles(pack_id, created_by, rows) ==
    [csv |-> <<rows>>,
     manifest |-> <<Manifest(pack_id, created_by, rows)>>,
     checksums |-> <<Checksums(<<rows>>, <<Manifest(pack_id, created_by, rows)>>)>>]

\* The audit_packs row INSERTed for the files written.
PackRow(pack_id, created_by, rows, written) ==
    [pack_id |-> pack_id, created_by |-> created_by, row_count |-> Len(rows),
     manifest_hash |-> _sha256_file(written.manifest),
     checksums_hash |-> _sha256_file(written.checksums)]

GeneratedPack(pack_id, created_by, rows) ==
    /\ files' = Append(files, PackFiles(pack_id, created_by, rows))
    /\ audit_packs' = Append(audit_packs,
            PackRow(pack_id, created_by, rows, PackFiles(pack_id, created_by, rows)))
    /\ audit_logs' \in append_audit_event(audit_logs, created_by, "AUDIT_PACK_GENERATED",
                          "audit_pack", pack_id, [row_count |-> Len(rows)])
    /\ last' = Call("generate_audit_pack", "", pack_id, NoError,
                    [NoReturn EXCEPT !.row_count = Len(rows)])

generate_audit_pack(created_by) ==
    /\ Len(audit_packs) < MaxPacks
    /\ Len(audit_logs) < MaxLedger
    /\ \E rows \in list_audit_events(audit_logs) :
          GeneratedPack(Len(audit_packs) + 1, created_by, rows)
    /\ UNCHANGED <<governance, clock_lag, ccp_tables, scoring_tables, lab_tables>>

\* missing: the files of the folder that do not exist, in the order checked.
MissingFiles(folder) ==
    (IF folder.csv = <<>> THEN <<"audit_events.csv">> ELSE <<>>)
    \o (IF folder.manifest = <<>> THEN <<"manifest.json">> ELSE <<>>)
    \o (IF folder.checksums = <<>> THEN <<"checksums.json">> ELSE <<>>)

\* mismatches, for a folder with its three files and a readable
\* checksums.json: the loop over its items, then the two stored digests.
Mismatches(row, folder) ==
    (IF _sha256_file(folder.csv) # folder.checksums[1].csv
     THEN << <<"audit_events.csv", "hash_mismatch">> >> ELSE <<>>)
    \o (IF _sha256_file(folder.manifest) # folder.checksums[1].manifest
        THEN << <<"manifest.json", "hash_mismatch">> >> ELSE <<>>)
    \o (IF _sha256_file(folder.manifest) # row.manifest_hash
        THEN << <<"manifest.json", "manifest_hash_mismatch">> >> ELSE <<>>)
    \o (IF _sha256_file(folder.checksums) # row.checksums_hash
        THEN << <<"checksums.json", "checksums_hash_mismatch">> >> ELSE <<>>)

\* The verdict recorded and returned.
Verified(pack_id, verified_by, missing, mismatches) ==
    /\ audit_logs' \in append_audit_event(audit_logs, verified_by, "AUDIT_PACK_VERIFIED",
                          "audit_pack", pack_id,
                          [valid |-> missing = <<>> /\ mismatches = <<>>,
                           missing |-> missing, mismatches |-> mismatches])
    /\ last' = Call("verify_audit_pack", "", pack_id, NoError,
                    [pack_id |-> pack_id, valid |-> missing = <<>> /\ mismatches = <<>>,
                     missing_files |-> missing, mismatches |-> mismatches])

verify_audit_pack(pack_id, verified_by) ==
    /\ Len(audit_logs) < MaxLedger
    /\ IF pack_id \notin 1..Len(audit_packs)
       THEN /\ last' = Call("verify_audit_pack", "", pack_id, <<"Audit pack not found">>, NoReturn)
            /\ UNCHANGED audit_logs
       ELSE IF MissingFiles(files[pack_id]) # <<>>
       THEN Verified(pack_id, verified_by, MissingFiles(files[pack_id]), <<>>)
       ELSE IF ~files[pack_id].checksums[1].json
       THEN /\ last' = Call("verify_audit_pack", "", pack_id, <<"JSONDecodeError">>, NoReturn)
            /\ UNCHANGED audit_logs
       ELSE Verified(pack_id, verified_by, <<>>, Mismatches(audit_packs[pack_id], files[pack_id]))
    /\ UNCHANGED <<governance, clock_lag, ccp_tables, scoring_tables, lab_tables, pack_store>>

(***************************************************************************)
(* Someone with access to the storage directory deletes or rewrites a      *)
(* file of a pack.                                                         *)
(***************************************************************************)
PackFileNames == {"csv", "manifest", "checksums"}

\* checksums.json content that is not JSON.
Garbage == [json |-> FALSE, csv |-> <<>>, manifest |-> Manifest(0, "", <<>>)]

\* The files of a pack as generate_audit_pack wrote them, read back from the
\* digests stored in audit_packs.
AsGenerated(pack_id) ==
    [csv |-> <<audit_packs[pack_id].checksums_hash.csv>>,
     manifest |-> <<audit_packs[pack_id].manifest_hash>>,
     checksums |-> <<audit_packs[pack_id].checksums_hash>>]

\* A row that no operation appended.
ForgedRow ==
    [actor_id |-> "nobody", action_type |-> "FORGED", entity_type |-> "none", entity_id |-> 0,
     event_time |-> 0, payload |-> [row_count |-> 0], prev_hash |-> NoHash,
     event_hash |-> sha256(<<NoHash, "FORGED", "none", 0, [row_count |-> 0], 0>>)]

\* Contents a file may be rewritten with: the exported rows with a forged row
\* in front, or the rows as exported; the manifest with another row_count, or
\* as generated; a checksums.json that is unreadable, recomputed from the
\* files as they are, or as generated.
Rewritten(pack_id, name) ==
    IF name = "csv"
    THEN { <<ForgedRow>> \o AsGenerated(pack_id).csv[1], AsGenerated(pack_id).csv[1] }
    ELSE IF name = "manifest"
    THEN { [AsGenerated(pack_id).manifest[1] EXCEPT !.row_count = @ + 1],
           AsGenerated(pack_id).manifest[1] }
    ELSE { Garbage, AsGenerated(pack_id).checksums[1] } \cup
         (IF files[pack_id].csv # <<>> /\ files[pack_id].manifest # <<>>
          THEN { Checksums(files[pack_id].csv, files[pack_id].manifest) } ELSE {})

delete_file(pack_id, name) ==
    /\ pack_id \in 1..Len(files)
    /\ files[pack_id][name] # <<>>
    /\ files' = [files EXCEPT ![pack_id][name] = <<>>]
    /\ last' = Call("storage", name, pack_id, NoError, NoReturn)
    /\ UNCHANGED <<governance, clock_lag, audit_logs, ccp_tables, scoring_tables, lab_tables,
                   audit_packs>>

rewrite_file(pack_id, name) ==
    /\ pack_id \in 1..Len(files)
    /\ files[pack_id][name] # <<>>
    /\ \E content \in Rewritten(pack_id, name) :
          /\ content # files[pack_id][name][1]
          /\ files' = [files EXCEPT ![pack_id][name] = <<content>>]
    /\ last' = Call("storage", name, pack_id, NoError, NoReturn)
    /\ UNCHANGED <<governance, clock_lag, audit_logs, ccp_tables, scoring_tables, lab_tables,
                   audit_packs>>

(***************************************************************************)
(* The ledger under every operation that appends to it, one call at a      *)
(* time.                                                                   *)
(***************************************************************************)
LedgerRequests ==
    { ImportRequest("FSSAI", "R1", 1, NULL, Csv(<<RowA>>)),
      [GoodRequest EXCEPT !.release_code = " "] }

NextLedger ==
    \/ \E batch_code \in Batches \cup {"BX"}, metric_value \in {50, 95},
          rules \in {<<>>, <<RuleCook, RuleHold>>} :
          ingest_ccp_log(batch_code, metric_value, "op1", rules)
    \/ \E req \in LedgerRequests :
          Len(audit_logs) < MaxLedger /\ import_threshold_release(req)
    \/ Len(audit_logs) < MaxLedger /\ approve_threshold_release(1, "qa1", None)
    \/ Len(audit_logs) < MaxLedger /\ publish_threshold_release(1, "qa1")
    \/ SetRequirement(ReqA)
    \/ \E batch_code \in Batches \cup {"BX"} :
          ingest_lab_report(batch_code, "qa1", "LabOne", <<LabRow>>)
    \/ \E batch_code \in Batches \cup {"BX"} : score_batch_and_store(batch_code, "qa1")
    \/ run_anomaly_scan("qa1")
    \/ run_daily_cycle("system")
    \/ \E run_id \in 1..MaxRuns :
          \/ \E batch_code \in Batches : daily_cycle_scores(run_id, batch_code)
          \/ daily_cycle_scan(run_id)
          \/ daily_cycle_completed(run_id)
          \/ daily_cycle_failed(run_id)
    \/ generate_audit_pack("qa1")
    \/ \E pack_id \in 1..MaxPacks + 1 : verify_audit_pack(pack_id, "qa1")

SpecLedger == Init /\ [][NextLedger]_vars

(***************************************************************************)
(* Audit packs on a storage directory that others can write to.            *)
(***************************************************************************)
NextPack ==
    \/ \E rules \in {<<>>, <<RuleHold>>} : ingest_ccp_log("B1", 95, "op1", rules)
    \/ generate_audit_pack("qa1")
    \/ \E pack_id \in 1..MaxPacks + 1 : verify_audit_pack(pack_id, "qa1")
    \/ \E pack_id \in 1..MaxPacks, name \in PackFileNames :
          \/ delete_file(pack_id, name)
          \/ rewrite_file(pack_id, name)

SpecPack == Init /\ [][NextPack]_vars

(***************************************************************************)
(* publish_threshold_release statement by statement, next to a reader.     *)
(* The transaction's own writes are its view; the store shows a reader     *)
(* what is committed.                                                      *)
(***************************************************************************)
\* The checks that end publish_threshold_release before its first write.
PublishRefused(release_id) ==
    \/ release_id \notin ReleaseIds
    \/ ~publish_status_ok(releases[release_id].review_status)
    \/ ~release_coverage_report(requirements, values, releases[release_id]).ready_for_publish
    \/ ReleaseValues(values, release_id) = {}

\* compliance_thresholds after the close UPDATE of the release's publish.
AfterClose(thr, release, rows) ==
    (thr \ ClosedByPublish(thr, release, rows))
    \cup { [c EXCEPT !.effective_to = release.effective_from - 1] :
             c \in ClosedByPublish(thr, release, rows) }

\* compliance_thresholds after the INSERTs that follow.
AfterInsert(thr, release, rows) ==
    AfterClose(thr, release, rows) \cup { InsertedByPublish(thr, release, r) : r \in rows }

\* The close UPDATE, not yet committed.
publish_close(t, release_id, published_by) ==
    /\ \A u \in 1..MaxTxns : txns[u].state = "idle"
    /\ ~PublishRefused(release_id)
    /\ txns' = [txns EXCEPT ![t] =
            [state |-> "closed", release_id |-> release_id, published_by |-> published_by,
             before |-> thresholds,
             view |-> AfterClose(thresholds, releases[release_id],
                                 ReleaseValues(values, release_id))]]
    /\ last' = Call("publish_close", "", release_id, NoError, NoReturn)
    /\ UNCHANGED <<db, requirements, elsewhere>>

\* The INSERT loop, not yet committed.
publish_insert(t) ==
    /\ txns[t].state = "closed"
    /\ txns' = [txns EXCEPT ![t].state = "inserted",
                            ![t].view = AfterInsert(txns[t].before, releases[txns[t].release_id],
                                            ReleaseValues(values, txns[t].release_id))]
    /\ last' = Call("publish_insert", "", txns[t].release_id, NoError, NoReturn)
    /\ UNCHANGED <<db, requirements, elsewhere>>

\* The release UPDATE, the audit entry and the commit: the writes of the
\* transaction become the committed state.
publish_commit(t) ==
    /\ txns[t].state = "inserted"
    /\ releases[txns[t].release_id].review_status = "approved"
    /\ publish_threshold_release(txns[t].release_id, txns[t].published_by)

\* The call returns its result.
publish_return(t) ==
    /\ txns[t].state = "inserted"
    /\ releases[txns[t].release_id].review_status = "published"
    /\ txns' = [txns EXCEPT ![t] = Idle]
    /\ last' = Call("publish_return", "", txns[t].release_id, NoError, NoReturn)
    /\ UNCHANGED <<db, requirements, elsewhere>>

\* The publish calls that have not returned.
Publishing == { t \in 1..MaxTxns : txns[t].state \in {"closed", "inserted"} }

\* Rows of compliance_thresholds a statement of another session reads while
\* uncommitted writes are visible to it.
Visible_uncommitted ==
    IF Publishing = {} THEN thresholds ELSE txns[CHOOSE t \in Publishing : TRUE].view

\* Rows of compliance_thresholds a statement of another session reads: the
\* committed ones.
Visible == thresholds

\* The LEFT JOIN of batch_comparison for one test record.
Joined(thr, parameter_code, product_sku, tested_on) ==
    { c \in thr : /\ c.parameter_code = parameter_code
                  /\ c.product_category = product_sku
                  /\ c.effective_from <= tested_on
                  /\ (c.effective_to = NULL \/ c.effective_to >= tested_on) }

\* The SELECT of batch_comparison, for a test record of the batch: what it
\* read of the record's key, the rows it joined, and the publish calls that
\* were running.
batch_comparison_select(parameter_code, product_sku, tested_on) ==
    /\ last' = Call("batch_comparison", "", 0, NoError,
            [read |-> { c \in Visible : /\ c.parameter_code = parameter_code
                                       /\ c.product_category = product_sku },
             rows |-> Joined(Visible, parameter_code, product_sku, tested_on),
             parameter_code |-> parameter_code, product_sku |-> product_sku,
             publishing |-> { [release_id |-> txns[t].release_id, before |-> txns[t].before] :
                                t \in Publishing }])
    /\ UNCHANGED <<db, requirements, txns, elsewhere>>

ReaderRequests ==
    { ImportRequest("FSSAI", code, from, NULL, Csv(<<RowA>>)) :
        code \in ReleaseCodes, from \in Dates }

NextReader ==
    \/ \E req \in ReaderRequests : import_threshold_release(req)
    \/ \E release_id \in 1..Len(releases) : approve_threshold_release(release_id, "qa2", None)
    \/ \E release_id \in 1..Len(releases) :
          PublishRefused(release_id) /\ publish_threshold_release(release_id, "qa1")
    \/ \E release_id \in 1..Len(releases) : publish_close(1, release_id, "qa1")
    \/ publish_insert(1)
    \/ publish_commit(1)
    \/ publish_return(1)
    \/ \E tested_on \in Dates : batch_comparison_select("AFLA_B1", "NUTRI", tested_on)
    \/ SetRequirement(ReqA)

SpecReader == Init /\ [][NextReader]_vars

(***************************************************************************)
(* Concurrent publishes.  Each transaction reads the release and makes the *)
(* checks of publish_threshold_release; then its close UPDATE matches the  *)
(* open rows that are committed at that moment, waiting while another      *)
(* transaction holds one of them closed and uncommitted; then, as one      *)
(* step, its INSERTs, the UPDATE of the release row, the audit entry and   *)
(* the commit.  Nothing in the call locks the release or the key.          *)
(***************************************************************************)
publish_read(t, release_id, published_by) ==
    /\ txns[t].state = "idle"
    /\ ~PublishRefused(release_id)
    /\ txns' = [txns EXCEPT ![t] = [state |-> "read", release_id |-> release_id,
                                    published_by |-> published_by,
                                    read |-> releases[release_id]]]
    /\ last' = Call("publish_read", "", release_id, NoError, NoReturn)
    /\ UNCHANGED <<db, requirements, elsewhere>>

\* The rows other transactions have closed and not committed.
HeldClosed(t) ==
    UNION { txns[u].closed : u \in { v \in 1..MaxTxns : v # t /\ txns[v].state = "closing" } }

publish_close_rows(t) ==
    /\ txns[t].state = "read"
    /\ HeldClosed(t) \cap ClosedByPublish(thresholds, txns[t].read,
                                          ReleaseValues(values, txns[t].release_id)) = {}
    /\ txns' = [txns EXCEPT ![t] =
           [state |-> "closing", release_id |-> txns[t].release_id,
            published_by |-> txns[t].published_by, read |-> txns[t].read,
            closed |-> ClosedByPublish(thresholds, txns[t].read,
                                       ReleaseValues(values, txns[t].release_id))]]
    /\ last' = Call("publish_close_rows", "", txns[t].release_id, NoError, NoReturn)
    /\ UNCHANGED <<db, requirements, elsewhere>>

publish_finish(t) ==
    /\ txns[t].state = "closing"
    /\ \E applies \in StoreApplies(txns[t].read, releases[txns[t].release_id]) :
          IF applies
          THEN PublishWrite(txns[t].release_id, txns[t].published_by, txns[t].read,
                            txns[t].closed, ReleaseValues(values, txns[t].release_id))
          ELSE Fail("publish", "", txns[t].release_id, <<"SerializationFailure">>)
    /\ txns' = [txns EXCEPT ![t] = Idle]
    /\ UNCHANGED <<requirements, elsewhere>>

NextPublishRace ==
    \/ \E req \in RaceRequests : import_threshold_release(req)
    \/ SetRequirement(ReqA)
    \/ \E release_id \in 1..Len(releases) : approve_threshold_release(release_id, "qa2", None)
    \/ \E t \in 1..MaxTxns, release_id \in 1..Len(releases) : publish_read(t, release_id, "qa1")
    \/ \E t \in 1..MaxTxns : publish_close_rows(t)
    \/ \E t \in 1..MaxTxns : publish_finish(t)

SpecPublishRace == Init /\ [][NextPublishRace]_vars

(***************************************************************************)
(* Concurrent ledger writers.  Each transaction of score_batch_and_store   *)
(* makes its INSERT of the score and, inside append_audit_event, the       *)
(* SELECT of the latest committed event_hash and the INSERT of its entry;  *)
(* the entry is in the ledger when the transaction commits.                *)
(***************************************************************************)
score_begin(t, batch_code, actor_id) ==
    /\ txns[t].state = "idle"
    /\ batch_code \in Batches
    /\ Len(audit_logs) + Cardinality({ u \in 1..MaxTxns : txns[u].state = "scored" }) < MaxLedger
    /\ \E prev \in LatestEventHashes(audit_logs) :
          txns' = [txns EXCEPT ![t] =
              [state |-> "scored", batch_code |-> batch_code,
               row |-> AuditRow(prev, actor_id, "BATCH_RISK_SCORED", "batch",
                                BatchId(batch_code), [batch_code |-> batch_code])]]
    /\ last' = Call("score_begin", batch_code, BatchId(batch_code), NoError, NoReturn)
    /\ UNCHANGED <<db, requirements, elsewhere>>

score_commit(t) ==
    /\ txns[t].state = "scored"
    /\ ai_risk_scores' = Append(ai_risk_scores,
            [risk_id |-> Len(ai_risk_scores) + 1, entity_type |-> "batch",
             entity_id |-> BatchId(txns[t].batch_code)])
    /\ audit_logs' = Append(audit_logs, txns[t].row)
    /\ txns' = [txns EXCEPT ![t] = Idle]
    /\ last' = Call("score_batch_and_store", txns[t].batch_code, BatchId(txns[t].batch_code),
                    NoError, NoReturn)
    /\ UNCHANGED <<releases, values, thresholds, requirements, clock_lag, ccp_tables,
                   anomaly_events, automation_runs, lab_tables, pack_store>>

NextAuditRace ==
    \/ \E t \in 1..MaxTxns, batch_code \in Batches, actor_id \in Actors :
          score_begin(t, batch_code, actor_id)
    \/ \E t \in 1..MaxTxns : score_commit(t)
    \/ \E batch_code \in Batches \cup {"BX"} : score_batch_and_store(batch_code, "system")
    \/ run_anomaly_scan("qa1")

SpecAuditRace == Init /\ [][NextAuditRace]_vars

(***************************************************************************)
(* parse_threshold_csv on its own, over CSV texts that also have rows with *)
(* an empty product_category, parameter_name or unit.                      *)
(***************************************************************************)
RowNoCategory == [RowA EXCEPT !.product_category = " "]
RowNoName == [RowT EXCEPT !.parameter_name = " ", !.parameter_code = "tpc"]
RowNoUnit == [RowA EXCEPT !.unit = " "]

ParseRawRows == RawRows \cup { RowNoCategory, RowNoName, RowNoUnit }

ParseInputs ==
    { Csv(rs) : rs \in UNION { [1..n -> ParseRawRows] : n \in 0..MaxCsvRows } }
    \cup { [header |-> FULL_HEADER \ {"source_clause"}, rows |-> <<RowA>>],
           [header |-> FULL_HEADER \cup {"comment"}, rows |-> <<RowA>>] }

InitParse ==
    /\ releases = <<>>
    /\ values = {}
    /\ thresholds = {}
    /\ requirements = {}
    /\ audit_logs = <<>>
    /\ \E csv \in ParseInputs : last = Call("input", "", 0, NoError, [csv |-> csv])
    /\ txns = [t \in 1..MaxTxns |-> Idle]
    /\ clock_lag = 0
    /\ ccp_logs = <<>>
    /\ alerts = <<>>
    /\ ai_risk_scores = <<>>
    /\ anomaly_events = {}
    /\ automation_runs = <<>>
    /\ lab_reports = <<>>
    /\ quality_test_records = {}
    /\ ingestion_jobs = <<>>
    /\ audit_packs = <<>>
    /\ files = <<>>

\* A ValueError of parse_threshold_csv reaches the caller as the error.
Parsed(csv, parsed) ==
    Call("parse_threshold_csv", "", 0,
         IF parsed.fatal = "" THEN NoError ELSE <<parsed.fatal>>,
         [csv |-> csv, rows |-> parsed.rows, errors |-> parsed.errors])

parse_threshold_csv_call ==
    /\ last.op = "input"
    /\ last' = Parsed(last.ret.csv, parse_threshold_csv(last.ret.csv))
    /\ UNCHANGED <<db, requirements, txns, elsewhere>>

\* Parameter names as they appear in lab reports and threshold CSVs.
ParameterNames == {"Aflatoxin B1", "Total Aflatoxins", "Total Plate Count", "Moisture", "afla_b1"}

normalize_parameter_code_call ==
    /\ last.op = "input"
    /\ \E parameter_name \in ParameterNames :
          last' = Call("normalize_parameter_code", "", 0, NoError,
                       [parameter_name |-> parameter_name,
                        parameter_code |-> normalize_parameter_code(parameter_name)])
    /\ UNCHANGED <<db, requirements, txns, elsewhere>>

NextParse == parse_threshold_csv_call \/ normalize_parameter_code_call

SpecParse == InitParse /\ [][NextParse]_vars

(***************************************************************************)
(* Batch comparison: evaluate_status and the roll-up of batch_comparison.  *)
(* Observed values and limits are in tenths (8.4 is 84); NULL is an absent *)
(* limit.                                                                  *)
(***************************************************************************)
Result(status, risk_flag) == [status |-> status, risk_flag |-> risk_flag]

\* The flag after the test against the upper limit.
NearUpper(observed, limit_max) ==
    IF limit_max # NULL /\ 10 * observed >= 9 * limit_max THEN "NEAR_UPPER_LIMIT" ELSE "NORMAL"

\* Mutant: the test against the upper limit is made last and overwrites.
NearFlag_upper_last(observed, limit_min, limit_max) ==
    IF NearUpper(observed, limit_max) # "NORMAL" THEN NearUpper(observed, limit_max)
    ELSE IF limit_min # NULL /\ 10 * observed <= 11 * limit_min THEN "NEAR_LOWER_LIMIT"
    ELSE "NORMAL"

\* The flag after the test against the lower limit, which is made last and
\* overwrites.
NearFlag(observed, limit_min, limit_max) ==
    IF limit_min # NULL /\ 10 * observed <= 11 * limit_min THEN "NEAR_LOWER_LIMIT"
    ELSE NearUpper(observed, limit_max)

evaluate_status(observed, limit_min, limit_max) ==
    IF limit_min # NULL /\ observed < limit_min THEN Result("FAIL", "OUT_OF_RANGE")
    ELSE IF limit_max # NULL /\ observed > limit_max THEN Result("FAIL", "OUT_OF_RANGE")
    ELSE IF NearFlag(observed, limit_min, limit_max) # "NORMAL"
    THEN Result("WARNING", NearFlag(observed, limit_min, limit_max))
    ELSE Result("PASS", "NORMAL")

\* The standards batch_comparison looks up, in the order of its loop.
ComparedStandards == <<"FSSAI", "EU", "CODEX", "HACCP_INTERNAL">>

\* grouped[key]: for each standard the joined row kept for it, the last one
\* the SELECT returned under that name; which one is last is the store's
\* choice.
Grouped(joined) ==
    { g \in [ { ComparedStandards[i] : i \in 1..Len(ComparedStandards) } ->
                { NoRow } \cup { <<r>> : r \in joined } ] :
        \A name \in DOMAIN g :
            IF \E r \in joined : r.standard_name = name
            THEN g[name] # NoRow /\ g[name][1].standard_name = name
            ELSE g[name] = NoRow }

\* Mutant: the loop goes on after a FAIL.
RECURSIVE RollUp_no_break(_, _, _)
RollUp_no_break(observed, standards, n) ==
    IF n = 0 THEN Result("PASS", "NORMAL")
    ELSE IF standards[ComparedStandards[n]] = NoRow
    THEN RollUp_no_break(observed, standards, n - 1)
    ELSE IF evaluate_status(observed, standards[ComparedStandards[n]][1].limit_min,
                            standards[ComparedStandards[n]][1].limit_max).status = "PASS"
    THEN RollUp_no_break(observed, standards, n - 1)
    ELSE evaluate_status(observed, standards[ComparedStandards[n]][1].limit_min,
                         standards[ComparedStandards[n]][1].limit_max)

\* status_rollup and risk_rollup after the first n standards of the loop.
RECURSIVE RollUp(_, _, _)
RollUp(observed, standards, n) ==
    IF n = 0 THEN Result("PASS", "NORMAL")
    ELSE IF RollUp(observed, standards, n - 1).status = "FAIL"
    THEN RollUp(observed, standards, n - 1)
    ELSE IF standards[ComparedStandards[n]] = NoRow
    THEN RollUp(observed, standards, n - 1)
    ELSE IF evaluate_status(observed, standards[ComparedStandards[n]][1].limit_min,
                            standards[ComparedStandards[n]][1].limit_max).status = "PASS"
    THEN RollUp(observed, standards, n - 1)
    ELSE evaluate_status(observed, standards[ComparedStandards[n]][1].limit_min,
                         standards[ComparedStandards[n]][1].limit_max)

\* Inputs: the observed value of a test record and the threshold rows the
\* LEFT JOIN gives for it.
ObservedValues == {5, 10, 11, 12, 77, 84, 86}
LimitPairs == { <<NULL, NULL>>, <<NULL, 85>>, <<10, NULL>>, <<80, 85>> }


\* q.unit is the unit the lab report gave, t.unit the unit the threshold CSV
\* gave; the join matches parameter code, category and date, not the unit.
Units == {"ug/kg", "mg/kg", "%"}
LimitUnits == {"ug/kg", "mg/kg"}

JoinedRow(standard_name, pair, limit_unit) ==
    [standard_name |-> standard_name, limit_min |-> pair[1], limit_max |-> pair[2],
     limit_unit |-> limit_unit]

\* No row, one row, or for FSSAI two rows open at once.
JoinedOf(standard_name, limit_unit) ==
    { {} } \cup { { JoinedRow(standard_name, p, limit_unit) } : p \in LimitPairs }
    \cup (IF standard_name = "FSSAI"
          THEN { { JoinedRow(standard_name, p, limit_unit),
                   JoinedRow(standard_name, q, limit_unit) } :
                   p \in LimitPairs, q \in LimitPairs }
          ELSE {})

\* _convert_value(value, from_unit, to_unit) as an exact fraction
\* <<numerator, denominator>>, or Inconvertible (None) when the units are not
\* commensurable.
Inconvertible == <<>>

_convert_value(value, from_unit, to_unit) ==
    IF from_unit = to_unit THEN <<value, 1>>
    ELSE IF from_unit = "ug/kg" /\ to_unit = "mg/kg" THEN <<value, 1000>>
    ELSE IF from_unit = "mg/kg" /\ to_unit = "ug/kg" THEN <<value * 1000, 1>>
    ELSE Inconvertible

InitCompare ==
    /\ releases = <<>>
    /\ values = {}
    /\ thresholds = {}
    /\ requirements = {}
    /\ audit_logs = <<>>
    /\ \E observed \in ObservedValues, unit \in Units, limit_unit \in LimitUnits :
       \E fssai \in JoinedOf("FSSAI", limit_unit), eu \in JoinedOf("EU", limit_unit),
          codex \in JoinedOf("CODEX", limit_unit),
          haccp \in JoinedOf("HACCP_INTERNAL", limit_unit) :
          last = Call("input", "", 0, NoError,
                      [observed |-> observed, unit |-> unit,
                       joined |-> fssai \cup eu \cup codex \cup haccp])
    /\ txns = [t \in 1..MaxTxns |-> Idle]
    /\ clock_lag = 0
    /\ ccp_logs = <<>>
    /\ alerts = <<>>
    /\ ai_risk_scores = <<>>
    /\ anomaly_events = {}
    /\ automation_runs = <<>>
    /\ lab_reports = <<>>
    /\ quality_test_records = {}
    /\ ingestion_jobs = <<>>
    /\ audit_packs = <<>>
    /\ files = <<>>

\* One call of evaluate_status by the loop of batch_comparison: the record's
\* observed_value against the limits of a joined row.
evaluate_status_call ==
    /\ last.op = "input"
    /\ \E r \in last.ret.joined :
          last' = Call("evaluate_status", r.standard_name, 0, NoError,
                       [observed |-> last.ret.observed,
                        batch_value |-> last.ret.observed, unit |-> last.ret.unit,
                        limit_unit |-> r.limit_unit,
                        limit_min |-> r.limit_min, limit_max |-> r.limit_max,
                        result |-> evaluate_status(last.ret.observed, r.limit_min, r.limit_max)])
    /\ UNCHANGED <<db, requirements, txns, elsewhere>>

batch_comparison_call ==
    /\ last.op = "input"
    /\ \E standards \in Grouped(last.ret.joined) :
          last' = Call("batch_comparison", "", 0, NoError,
                       [observed |-> last.ret.observed, standards |-> standards,
                        result |-> RollUp(last.ret.observed, standards, Len(ComparedStandards))])
    /\ UNCHANGED <<db, requirements, txns, elsewhere>>

NextCompare == evaluate_status_call \/ batch_comparison_call

SpecCompare == InitCompare /\ [][NextCompare]_vars

(***************************************************************************)
(* Properties.  A step whose last' names a governance call is that call:   *)
(* every action records its call in last, and a call that repeats the      *)
(* previous one with the same outcome and no write is a stuttering step.   *)
(***************************************************************************)
ApproveRefusedPublished == <<"Release is already published and cannot be re-approved">>
PublishRefusedStatus == <<"Release must be approved before publish">>
ApproveRefusedCoverage ==
    <<"Release cannot be approved until coverage is complete and units/source clauses are valid">>
PublishRefusedCoverage ==
    <<"Release cannot be published until coverage is complete and units/source clauses are valid">>

\* C1: a release's review_status only changes draft -> approved, in an
\* approve call on that release, and approved -> published, in a publish call
\* on it; releases are never removed; approve on a published release raises
\* and leaves it published.
C1_StatusOnlyAdvances ==
    [][ /\ Len(releases') >= Len(releases)
        /\ \A i \in 1..Len(releases) :
             LET s == releases[i].review_status
                 t == releases'[i].review_status
             IN  /\ \/ t = s
                    \/ s = "draft" /\ t = "approved" /\ last'.op = "approve" /\ last'.release_id = i
                    \/ s = "approved" /\ t = "published" /\ last'.op = "publish" /\ last'.release_id = i
                 /\ (last'.op = "approve" /\ last'.release_id = i /\ s = "published")
                      => last'.error = ApproveRefusedPublished /\ t = "published" ]_vars

C1_Witness ==
    \E i \in 1..Len(releases) :
        /\ releases[i].review_status = "published"
        /\ last.op = "approve" /\ last.release_id = i
        /\ last.error = ApproveRefusedPublished

\* C2: for every key (standard_name, product_category, parameter_code) at
\* most one compliance_thresholds row has effective_to = NULL.
C2_AtMostOneOpenRowPerKey ==
    \A c1, c2 \in thresholds :
        ( /\ c1.effective_to = NULL /\ c2.effective_to = NULL
          /\ c1.standard_name = c2.standard_name
          /\ c1.product_category = c2.product_category
          /\ c1.parameter_code = c2.parameter_code ) => c1 = c2

\* C3: publish returns only for a release whose status is 'approved'; on a
\* draft release it raises 'Release must be approved before publish', on a
\* published release it raises too, and in both cases releases, value rows,
\* live thresholds and the ledger are unchanged.
C3_PublishOnlyFromApproved ==
    [][ \A i \in 1..Len(releases) :
          (last'.op = "publish" /\ last'.release_id = i) =>
             /\ releases[i].review_status = "draft"
                  => last'.error = PublishRefusedStatus /\ UNCHANGED db
             /\ releases[i].review_status = "published"
                  => last'.error # NoError /\ UNCHANGED db
             /\ last'.error = NoError => releases[i].review_status = "approved" ]_vars

C3_Witness ==
    \E i \in 1..Len(releases) :
        /\ releases[i].review_status = "published"
        /\ thresholds # {}
        /\ last.op = "publish" /\ last.release_id = i
        /\ last.error = PublishRefusedStatus

\* C4: approve on an approved release returns idempotent = true, raises
\* nothing, appends no audit entry and leaves every release row (status,
\* approved_by, approved_at, notes), value row and live threshold as it was.
C4_ReapproveChangesNothing ==
    [][ \A i \in 1..Len(releases) :
          (last'.op = "approve" /\ last'.release_id = i
             /\ releases[i].review_status = "approved") =>
             /\ last'.error = NoError
             /\ last'.ret.idempotent
             /\ Len(audit_logs') = Len(audit_logs)
             /\ releases'[i].review_status = releases[i].review_status
             /\ releases'[i].approved_by = releases[i].approved_by
             /\ releases'[i].approved_at = releases[i].approved_at
             /\ releases'[i].notes = releases[i].notes
             /\ UNCHANGED db ]_vars

C4_Witness ==
    \E i \in 1..Len(releases) :
        /\ last.op = "approve" /\ last.release_id = i /\ last.ret.idempotent
        /\ releases[i].review_status = "approved"
        /\ releases[i].approved_by = "qa2" /\ releases[i].notes = "reviewed"

\* C5: an import that returns appends exactly one release, in status
\* 'draft', whose row_count is the number of rows parsed from the CSV, adds
\* exactly one value row per parsed row, all owned by that release, and
\* appends exactly one audit entry, REG_THRESHOLD_RELEASE_IMPORTED for that
\* release; and a release only comes into being that way.
C5_ImportCreatesOneDraft ==
    [][ /\ (last'.op = "import" /\ last'.error = NoError) =>
             \E req \in LifecycleRequests :
                LET rows == parse_threshold_csv(req.csv).rows
                    new == releases'[Len(releases')]
                    added == values' \ values
                    entry == audit_logs'[Len(audit_logs')]
                IN  /\ Len(releases') = Len(releases) + 1
                    /\ SubSeq(releases', 1, Len(releases)) = releases
                    /\ new.review_status = "draft"
                    /\ new.release_code = req.release_code
                    /\ new.release_id = last'.ret.release_id
                    /\ new.row_count = Len(rows)
                    /\ values \subseteq values'
                    /\ Cardinality(added) = Len(rows)
                    /\ \A v \in added : v.release_id = new.release_id
                    /\ \A k \in 1..Len(rows) :
                          \E v \in added : /\ v.product_category = rows[k].product_category
                                           /\ v.parameter_code = rows[k].parameter_code
                                           /\ v.unit = rows[k].unit
                                           /\ v.limit_max = rows[k].limit_max
                                           /\ v.source_clause = rows[k].source_clause
                    /\ Len(audit_logs') = Len(audit_logs) + 1
                    /\ SubSeq(audit_logs', 1, Len(audit_logs)) = audit_logs
                    /\ entry.action_type = "REG_THRESHOLD_RELEASE_IMPORTED"
                    /\ entry.entity_id = new.release_id
                    /\ entry.payload.row_count = Len(rows)
        /\ Len(releases') > Len(releases) =>
             /\ last'.op = "import" /\ last'.error = NoError
             /\ releases'[Len(releases')].review_status = "draft" ]_vars

C5_Witness ==
    /\ last.op = "import" /\ last.error = NoError /\ last.ret.row_count = 2
    /\ Len(releases) = 2
    /\ Cardinality({ v \in values : v.release_id = 2 }) = 2
    /\ releases[1].review_status = "published"

\* C6: a governance call that raises commits nothing: releases, value rows,
\* live thresholds and the ledger are as before the call; so every release has
\* its row_count value rows, every value row has its release, and the live
\* thresholds only change in a publish that returns.
C6_RefusedCallWritesNothing ==
    [][ /\ last'.error # NoError => UNCHANGED db
        /\ \A i \in 1..Len(releases') :
              Cardinality({ v \in values' : v.release_id = i }) = releases'[i].row_count
        /\ \A v \in values' : v.release_id \in 1..Len(releases')
        /\ thresholds' # thresholds => last'.op = "publish" /\ last'.error = NoError ]_vars

C6_Witness ==
    \E i \in 1..Len(releases) :
        /\ thresholds # {}
        /\ releases[i].review_status = "approved"
        /\ last.op = "publish" /\ last.release_id = i
        /\ last.error = PublishRefusedCoverage

\* C7: a release is created only if the mandatory requirement rows active at
\* its effective_from that require its standard are not empty and each of
\* them has a value row of the release with its (product_category,
\* parameter_code) and a unit that normalizes to the same unit as the
\* requirement's canonical_unit.
RequiresStandard(r, standard_name) ==
    \/ standard_name = "FSSAI" /\ r.require_fssai
    \/ standard_name = "EU" /\ r.require_eu
    \/ standard_name = "CODEX" /\ r.require_codex
    \/ standard_name = "HACCP_INTERNAL" /\ r.require_haccp_internal

RequiredOf(reqs, release) ==
    { r \in reqs : /\ r.is_mandatory
                   /\ r.effective_from <= release.effective_from
                   /\ (r.effective_to = NULL \/ r.effective_to >= release.effective_from)
                   /\ RequiresStandard(r, release.standard_name) }

Covers(vals, release, r) ==
    \E v \in vals : /\ v.release_id = release.release_id
                    /\ v.product_category = r.product_category
                    /\ v.parameter_code = r.parameter_code
                    /\ normalize_unit(v.unit) = normalize_unit(r.canonical_unit)

C7_ImportGate ==
    [][ Len(releases') > Len(releases) =>
          LET new == releases'[Len(releases')]
          IN  /\ RequiredOf(requirements, new) # {}
              /\ \A r \in RequiredOf(requirements, new) : Covers(values', new, r) ]_vars

C7_Witness ==
    /\ last.op = "import" /\ last.error = NoError
    /\ Len(releases) = 1 /\ releases[1].standard_name = "EU"
    /\ ReqT \in requirements

\* C8: no two releases have the same release_code, and an import whose
\* INSERT meets a committed release with its release_code raises the error
\* naming the code and leaves releases, value rows, thresholds and the ledger
\* as they were, also when the other import committed after this one had
\* passed its checks.
C8_ReleaseCodeUnique ==
    [][ /\ \A i, j \in 1..Len(releases') :
              releases'[i].release_code = releases'[j].release_code => i = j
        /\ \A t \in 1..MaxTxns :
              ( /\ txns[t].state = "validated" /\ txns'[t].state = "idle"
                /\ \E i \in 1..Len(releases) :
                      releases[i].release_code = txns[t].chk.release_code )
              => /\ last'.op = "import"
                 /\ last'.error = <<"release_code", txns[t].chk.release_code, "already exists">>
                 /\ UNCHANGED db
        /\ \A i \in 1..Len(releases') :
              Cardinality({ v \in values' : v.release_id = i }) = releases'[i].row_count
        /\ Len(audit_logs') = Len(releases') ]_vars

C8_Witness ==
    /\ last.op = "import" /\ last.error = <<"release_code", "R1", "already exists">>
    /\ Cardinality({ i \in 1..Len(releases) : releases[i].release_code = "R1" }) = 1
    /\ \E t \in 1..MaxTxns : txns[t].state = "validated" /\ txns[t].chk.release_code = "R1"

\* C9: a release becomes 'approved' or 'published' only in a call at whose
\* start the release has a value row, every requirement row then active for
\* its standard at its effective_from is covered by a value row with a
\* matching normalized unit, and every value row has a source_clause; and an
\* approve of a draft release, or a publish of an approved one, for which
\* that does not hold raises and leaves the release as it was.
CoverageReady(reqs, vals, release) ==
    /\ \E v \in vals : v.release_id = release.release_id
    /\ \A r \in RequiredOf(reqs, release) : Covers(vals, release, r)
    /\ \A v \in vals : v.release_id = release.release_id
          => v.source_clause # None /\ v.source_clause # ""

C9_PromotionIsCoverageGated ==
    [][ \A i \in 1..Len(releases) :
          /\ ( /\ releases'[i].review_status # releases[i].review_status
               /\ releases'[i].review_status \in {"approved", "published"} )
             => CoverageReady(requirements, values, releases[i])
          /\ ( /\ ~CoverageReady(requirements, values, releases[i])
               /\ last'.release_id = i
               /\ \/ last'.op = "approve" /\ releases[i].review_status = "draft"
                  \/ last'.op = "publish" /\ releases[i].review_status = "approved" )
             => /\ last'.error \in {ApproveRefusedCoverage, PublishRefusedCoverage}
                /\ releases'[i] = releases[i] ]_vars

C9_Witness ==
    \E i \in 1..Len(releases) :
        /\ releases[i].review_status = "draft"
        /\ ~CoverageReady(requirements, values, releases[i])
        /\ last.op = "approve" /\ last.release_id = i
        /\ last.error = ApproveRefusedCoverage

\* C10: a publish of release R that returns sets effective_to to
\* R.effective_from - 1 on exactly the live rows that are open, have R's
\* standard, have a (product_category, parameter_code) of one of R's value
\* rows and have effective_from <= R.effective_from; inserts exactly one row
\* per value row of R, carrying R's effective_from and effective_to; leaves
\* every other live row as it was; and returns, and records in the audit
\* payload, the numbers of rows closed and inserted.
C10_PublishCutover ==
    [][ (last'.op = "publish" /\ last'.error = NoError) =>
          LET i == last'.release_id
              R == releases[i]
              rows == { v \in values : v.release_id = i }
              toClose == { c \in thresholds :
                             /\ c.effective_to = NULL
                             /\ c.standard_name = R.standard_name
                             /\ c.effective_from <= R.effective_from
                             /\ \E v \in rows : /\ v.product_category = c.product_category
                                                /\ v.parameter_code = c.parameter_code }
              closedNow == { [c EXCEPT !.effective_to = R.effective_from - 1] : c \in toClose }
              kept == thresholds \ toClose
              inserted == thresholds' \ (kept \cup closedNow)
              entry == audit_logs'[Len(audit_logs')]
          IN  /\ kept \subseteq thresholds'
              /\ closedNow \subseteq thresholds'
              /\ toClose \cap thresholds' = {}
              /\ Cardinality(thresholds') = Cardinality(thresholds) + Cardinality(rows)
              /\ Cardinality(inserted) = Cardinality(rows)
              /\ \A n \in inserted : /\ n.effective_from = R.effective_from
                                     /\ n.effective_to = R.effective_to
                                     /\ n.standard_name = R.standard_name
              /\ \A v \in rows :
                    Cardinality({ n \in inserted : /\ n.product_category = v.product_category
                                                   /\ n.parameter_code = v.parameter_code
                                                   /\ n.unit = v.unit
                                                   /\ n.limit_min = v.limit_min
                                                   /\ n.limit_max = v.limit_max }) = 1
              /\ last'.ret.closed_previous_rows = Cardinality(toClose)
              /\ last'.ret.inserted_rows = Cardinality(rows)
              /\ entry.action_type = "REG_THRESHOLD_RELEASE_PUBLISHED"
              /\ entry.payload.closed_previous_rows = Cardinality(toClose)
              /\ entry.payload.inserted_rows = Cardinality(rows) ]_vars

C10_Witness ==
    /\ last.op = "publish" /\ last.error = NoError
    /\ last.ret.closed_previous_rows = 1 /\ last.ret.inserted_rows = 1
    /\ \E c \in thresholds : c.parameter_code = "TPC" /\ c.effective_to = NULL
    /\ \E c \in thresholds : c.parameter_code = "AFLA_B1" /\ c.effective_to = MaxDate - 1

\* C11: the first ledger entry has no prev_hash and every later entry's
\* prev_hash is the event_hash of the entry appended immediately before it,
\* also when one transaction appends several entries.
C11_ChainIsLinked ==
    \A i \in 1..Len(audit_logs) :
        audit_logs[i].prev_hash =
            IF i = 1 THEN NoHash ELSE audit_logs[i - 1].event_hash

\* C12: the event_hash of every stored entry is the hash of the entry's own
\* recorded fields: prev_hash, action_type, entity_type, entity_id, payload
\* and the stored event_time.
C12_HashReproducible ==
    \A i \in 1..Len(audit_logs) :
        LET e == audit_logs[i]
        IN  e.event_hash = sha256(<<e.prev_hash, e.action_type, e.entity_type,
                                    e.entity_id, e.payload, e.event_time>>)

\* C13: the ledger is append-only.  Every step of every operation (governance,
\* CCP ingestion, risk scoring, anomaly scan, automation, audit-pack generation
\* and verification) leaves the entries that were in the ledger where they
\* were and as they were; entries are only added at the end.
C13_LedgerAppendOnly ==
    [][/\ Len(audit_logs') >= Len(audit_logs)
       /\ SubSeq(audit_logs', 1, Len(audit_logs)) = audit_logs]_vars

\* A ledger that a pack generation, a pack verification and another operation
\* have written to.
C13_Witness ==
    /\ Len(audit_logs) >= 3
    /\ \E i, j \in 1..Len(audit_logs) :
          /\ i < j
          /\ audit_logs[i].action_type = "AUDIT_PACK_GENERATED"
          /\ audit_logs[j].action_type = "AUDIT_PACK_VERIFIED"

\* C14: every successful transition or ingestion leaves the ledger strictly
\* longer than it was: import, non-idempotent approve, publish, CCP log
\* ingestion and lab-report ingestion.
C14_SuccessLengthensLedger ==
    [][(/\ last'.op \in {"import", "approve", "publish", "ingest_ccp_log", "ingest_lab_report"}
        /\ last'.error = NoError
        /\ ~last'.ret.idempotent)
       => Len(audit_logs') > Len(audit_logs)]_vars

\* The rows of a set of threshold rows that belong to a value row's key
\* under the release's standard.
OfKey(thr, release, row) ==
    { c \in thr : /\ c.standard_name = release.standard_name
                  /\ c.product_category = row.product_category
                  /\ c.parameter_code = row.parameter_code }

\* What a reader is to see of one key the publish touches: the state before
\* (the open row still open, the new row absent) or the state after (the row
\* that was open closed, the new row present).
SeesBeforeOrAfter(read, before, release, row) ==
    LET old == { c \in OfKey(before, release, row) : c.effective_to = NULL }
        new == { c \in OfKey(read, release, row) :
                   \A b \in before : b.threshold_id # c.threshold_id }
    IN  \/ /\ old \subseteq read
           /\ new = {}
        \/ /\ \A c \in old : \E d \in read : /\ d.threshold_id = c.threshold_id
                                               /\ d.effective_to # NULL
           /\ new # {}

\* C15: a batch_comparison read that runs while publish_threshold_release is
\* running never sees a half-completed cutover: for every key the publish
\* touches it sees the old row open and the new row absent, or the old row
\* closed and the new row present; never the old row closed without the new
\* row, never both rows open.
C15_ReadSeesBeforeOrAfter ==
    last.op = "batch_comparison" =>
        \A p \in last.ret.publishing :
            \A row \in ReleaseValues(values, p.release_id) :
                SeesBeforeOrAfter(last.ret.read, p.before, releases[p.release_id], row)

\* What the reader read is the committed state before the publish or the
\* one after it, whole.
ReadIsOneCommittedState ==
    last.op = "batch_comparison" =>
        \A p \in last.ret.publishing :
            \E thr \in { p.before,
                          AfterInsert(p.before, releases[p.release_id],
                                      ReleaseValues(values, p.release_id)) } :
                last.ret.read = { c \in thr : /\ c.parameter_code = last.ret.parameter_code
                                              /\ c.product_category = last.ret.product_sku }

\* C16: evaluate_status returns (FAIL, OUT_OF_RANGE) exactly when an existing
\* bound is violated; otherwise (WARNING, NEAR_LOWER_LIMIT) when limit_min
\* exists and observed <= 1.10 * limit_min; otherwise (WARNING,
\* NEAR_UPPER_LIMIT) when limit_max exists and observed >= 0.90 * limit_max;
\* otherwise (PASS, NORMAL); with no bounds the result is (PASS, NORMAL), and
\* evaluate_status(8.4, None, 8.5) is (WARNING, NEAR_UPPER_LIMIT).
C16_EvaluateStatus ==
    last.op = "evaluate_status" =>
        LET o == last.ret.observed
            lo == last.ret.limit_min
            hi == last.ret.limit_max
        IN  /\ last.ret.result =
                 IF (lo # NULL /\ o < lo) \/ (hi # NULL /\ o > hi)
                 THEN Result("FAIL", "OUT_OF_RANGE")
                 ELSE IF lo # NULL /\ 10 * o <= 11 * lo
                 THEN Result("WARNING", "NEAR_LOWER_LIMIT")
                 ELSE IF hi # NULL /\ 10 * o >= 9 * hi
                 THEN Result("WARNING", "NEAR_UPPER_LIMIT")
                 ELSE Result("PASS", "NORMAL")
            /\ (lo = NULL /\ hi = NULL) => last.ret.result = Result("PASS", "NORMAL")
            /\ (o = 84 /\ lo = NULL /\ hi = 85)
                   => last.ret.result = Result("WARNING", "NEAR_UPPER_LIMIT")

\* evaluate_status(8.4, 8.0, 8.5): inside both near-limit margins.
C16_Witness ==
    /\ last.op = "evaluate_status"
    /\ last.ret.observed = 84 /\ last.ret.limit_min = 80 /\ last.ret.limit_max = 85
    /\ last.ret.result = Result("WARNING", "NEAR_LOWER_LIMIT")

\* What the standards that have a row evaluate to.
Evaluations(observed, standards) ==
    { evaluate_status(observed, standards[name][1].limit_min, standards[name][1].limit_max) :
        name \in { n \in DOMAIN standards : standards[n] # NoRow } }

\* C17: the roll-up of batch_comparison over the standards that have a
\* threshold row: FAIL if any standard evaluates to FAIL, else WARNING if any
\* evaluates to WARNING, else PASS with flag NORMAL; the flag is the one of a
\* standard that yielded the overall status; standards without a row do not
\* count, and with no row at all the result is PASS / NORMAL.
C17_RollUp ==
    last.op = "batch_comparison" =>
        LET evals == Evaluations(last.ret.observed, last.ret.standards)
            status == IF \E e \in evals : e.status = "FAIL" THEN "FAIL"
                      ELSE IF \E e \in evals : e.status = "WARNING" THEN "WARNING"
                      ELSE "PASS"
        IN  /\ last.ret.result.status = status
            /\ IF status = "PASS" THEN last.ret.result.risk_flag = "NORMAL"
               ELSE last.ret.result \in evals

\* A roll-up in which one standard warns and a later one fails.
C17_Witness ==
    /\ last.op = "batch_comparison"
    /\ last.ret.result.status = "FAIL"
    /\ last.ret.standards["FSSAI"] # NoRow
    /\ last.ret.standards["EU"] # NoRow
    /\ evaluate_status(last.ret.observed, last.ret.standards["FSSAI"][1].limit_min,
                       last.ret.standards["FSSAI"][1].limit_max).status = "WARNING"
    /\ evaluate_status(last.ret.observed, last.ret.standards["EU"][1].limit_min,
                       last.ret.standards["EU"][1].limit_max).status = "FAIL"

\* The returned row has every required field.
ValidRow(row) ==
    /\ row.product_category # ""
    /\ row.parameter_name # ""
    /\ row.unit # ""
    /\ row.source_clause # None /\ row.source_clause # ""
    /\ row.limit_min # NULL \/ row.limit_max # NULL
    /\ row.severity \in ALLOWED_SEVERITIES

\* The returned row is what the first input row of its key parses to.
FirstOfKey(csv, row) ==
    \E n \in 1..Len(csv.rows) :
        /\ ParseRow(csv, csv.rows[n], n + 1).row = <<row>>
        /\ \A m \in 1..(n - 1) :
              \/ ParseRow(csv, csv.rows[m], m + 1).row = NoRow
              \/ RowKey(ParseRow(csv, csv.rows[m], m + 1).row[1]) # RowKey(row)

\* C18: parse_threshold_csv returns only the deduplicated valid rows: every
\* returned row has a non-empty product_category, parameter_name, unit and
\* source_clause, at least one limit and an allowed severity; no two returned
\* rows share (product_category, parameter_code), the first occurrence being
\* kept; and there is at least one error for every input row not returned.
C18_ReturnsValidDedupedRows ==
    (last.op = "parse_threshold_csv" /\ last.error = NoError) =>
        /\ \A i \in 1..Len(last.ret.rows) : ValidRow(last.ret.rows[i])
        /\ \A i, j \in 1..Len(last.ret.rows) :
              RowKey(last.ret.rows[i]) = RowKey(last.ret.rows[j]) => i = j
        /\ \A i \in 1..Len(last.ret.rows) : FirstOfKey(last.ret.csv, last.ret.rows[i])
        /\ Len(last.ret.errors) >= Len(last.ret.csv.rows) - Len(last.ret.rows)

\* The entry's hash recomputed from its recorded fields.
Recomputed(e) ==
    sha256(<<e.prev_hash, e.action_type, e.entity_type, e.entity_id, e.payload, e.event_time>>)

\* The exported entries, newest first, have a break: a hash that cannot be
\* recomputed, or a prev_hash that is not the event_hash of the entry before.
ChainBreak(rows) ==
    \/ \E i \in 1..Len(rows) : rows[i].event_hash # Recomputed(rows[i])
    \/ \E i \in 1..Len(rows) - 1 : rows[i].prev_hash # rows[i + 1].event_hash

\* C19: verification of an audit pack reports the pack valid only when the
\* exported entries have no break: every entry's recomputed hash is its stored
\* event_hash and every entry's prev_hash is the previous entry's event_hash.
C19_ValidPackHasIntactChain ==
    (/\ last.op = "verify_audit_pack"
     /\ last.error = NoError
     /\ last.ret.valid)
    => \/ files[last.release_id].csv = <<>>
       \/ ~ChainBreak(files[last.release_id].csv[1])

\* C20: verify_audit_pack on a pack whose three files are as generated
\* returns valid = true; when a file is deleted or its content changed it
\* returns valid = false with a non-empty missing or mismatch list; and it
\* never rewrites the files or the stored hashes.
C20_TamperEvidence ==
    [][(last'.op = "verify_audit_pack" /\ last'.release_id \in 1..Len(audit_packs))
       => /\ files' = files /\ audit_packs' = audit_packs
          /\ last'.error = NoError
          /\ IF files[last'.release_id] = AsGenerated(last'.release_id)
             THEN last'.ret.valid
             ELSE /\ ~last'.ret.valid
                  /\ last'.ret.missing_files # <<>> \/ last'.ret.mismatches # <<>>]_vars

\* C21: normalize_parameter_code maps the known parameter names to their
\* canonical codes: "Aflatoxin B1" to "AFLA_B1", "Total Aflatoxins" to
\* "AFLA_TOTAL" and "Total Plate Count" to "TPC".
C21_KnownNamesToCanonicalCodes ==
    last.op = "normalize_parameter_code" =>
        /\ last.ret.parameter_name = "Aflatoxin B1" => last.ret.parameter_code = "AFLA_B1"
        /\ last.ret.parameter_name = "Total Aflatoxins" => last.ret.parameter_code = "AFLA_TOTAL"
        /\ last.ret.parameter_name = "Total Plate Count" => last.ret.parameter_code = "TPC"

\* C22: an observed value is evaluated against a limit only after
\* _convert_value brought it to the limit's unit (a factor of 1000 between
\* ug/kg and mg/kg), and not at all when the units are incompatible.
C22_EvaluatedInLimitUnit ==
    last.op = "evaluate_status" =>
        _convert_value(last.ret.batch_value, last.ret.unit, last.ret.limit_unit)
            = <<last.ret.observed, 1>>

\* C23: a release whose status is 'rejected' keeps that status in every
\* step, and approve and publish on it raise.
C23_RejectedIsDeadEnd ==
    [][ \A i \in 1..Len(releases) :
          releases[i].review_status = "rejected" =>
             /\ releases'[i].review_status = "rejected"
             /\ (last'.op \in {"approve", "publish"} /\ last'.release_id = i)
                  => last'.error # NoError ]_vars

C25_OneApprovalPerRelease ==
    [][ \A i \in 1..Len(releases) :
          /\ Cardinality({ k \in 1..Len(audit_logs') :
                             /\ audit_logs'[k].action_type = "REG_THRESHOLD_RELEASE_APPROVED"
                             /\ audit_logs'[k].entity_id = i }) <= 1
          /\ releases[i].review_status = "approved" =>
                /\ releases'[i].approved_by = releases[i].approved_by
                /\ releases'[i].approved_at = releases[i].approved_at ]_vars

\* A live threshold row is in effect on date d.
InEffect(c, d) == c.effective_from <= d /\ (c.effective_to = NULL \/ c.effective_to >= d)

\* C26: for every key (standard_name, product_category, parameter_code) and
\* every date, at most one compliance_thresholds row is in effect, after any
\* sequence of publishes.
C26_WindowsNeverOverlap ==
    \A c1, c2 \in thresholds : \A d \in Dates :
        ( /\ c1.standard_name = c2.standard_name
          /\ c1.product_category = c2.product_category
          /\ c1.parameter_code = c2.parameter_code
          /\ InEffect(c1, d) /\ InEffect(c2, d) ) => c1 = c2

\* C27: every compliance_thresholds row has effective_to NULL or not before
\* its effective_from, rows closed by a later publish included.
C27_WindowIsWellFormed ==
    \A c \in thresholds : c.effective_to = NULL \/ c.effective_to >= c.effective_from

\* C28: with publishes running concurrently, two approved releases of one
\* key or the same release twice, at most one row per key is open and every
\* value row of a release is copied to compliance_thresholds at most once.
C28_ConcurrentCutoverIsExclusive ==
    /\ \A c1, c2 \in thresholds :
          ( /\ c1.effective_to = NULL /\ c2.effective_to = NULL
            /\ <<c1.standard_name, c1.product_category, c1.parameter_code>>
                 = <<c2.standard_name, c2.product_category, c2.parameter_code>> ) => c1 = c2
    /\ \A v \in values :
          Cardinality({ c \in thresholds : c.threshold_id[2] = v.value_id }) <= 1

\* C29: no two ledger entries have the same prev_hash (at most one entry
\* has none, and every entry has at most one successor), also when
\* transactions that append run concurrently.
C29_ChainNeverForks ==
    \A i, j \in 1..Len(audit_logs) :
        audit_logs[i].prev_hash = audit_logs[j].prev_hash => i = j

\* C30: a job goes queued -> processing -> completed or failed and no other
\* way; it is 'completed' only when its result names a lab_reports row that
\* ingest_lab_report persisted for its batch; and every job ends: when its
\* batch_code does not exist or processing raises, in 'failed'.
C30_JobOutcomeIsTruthful ==
    /\ [][ \A j \in 1..Len(ingestion_jobs) :
             /\ \/ ingestion_jobs'[j].status = ingestion_jobs[j].status
                \/ /\ ingestion_jobs[j].status = "queued"
                   /\ ingestion_jobs'[j].status = "processing"
                \/ /\ ingestion_jobs[j].status = "processing"
                   /\ ingestion_jobs'[j].status \in {"completed", "failed"}
             /\ ingestion_jobs'[j].status = "completed" =>
                   /\ ingestion_jobs'[j].result.report_id \in 1..Len(lab_reports')
                   /\ lab_reports'[ingestion_jobs'[j].result.report_id].batch_code
                        = ingestion_jobs'[j].batch_code ]_vars
    /\ \A j \in 1..MaxJobs :
          (Len(ingestion_jobs) >= j) ~>
              /\ Len(ingestion_jobs) >= j
              /\ ingestion_jobs[j].status \in {"completed", "failed"}
              /\ (ingestion_jobs[j].batch_code \notin Batches \/ ~ingestion_jobs[j].readable)
                    => ingestion_jobs[j].status = "failed"

====
